---------------------------- MODULE Spec2Model ----------------------------
(***************************************************************************)
(* Model of the Color Ramp generators (js/color-ramp-hsl.js and            *)
(* js/color-ramp-oklch.js).                                                *)
(*                                                                         *)
(* Numbers.  The code computes in IEEE doubles; the model computes in      *)
(* exact decimal fixed point:                                              *)
(*   - saturation and lightness: units of 1/10000  (0.45 is 4500); this is *)
(*     the grid on which tinycolor itself stores the s and l it is given   *)
(*     (bound01 keeps two decimals of the percentage);                     *)
(*   - hue: units of 1/100 degree (210 degrees is 21000);                  *)
(*   - sRGB channels: bytes 0..255;                                        *)
(*   - WCAG linear channel values: units of 1/100000;                      *)
(*   - contrast ratios: hundredths (4.5 is 450).                           *)
(***************************************************************************)
EXTENDS Integers, Sequences, FiniteSets, TLC

-----------------------------------------------------------------------------
(* Arithmetic helpers *)

Min(a, b) == IF a <= b THEN a ELSE b

Max(a, b) == IF a >= b THEN a ELSE b

Abs(a) == IF a >= 0 THEN a ELSE -a

(* Math.round of the quotient n / d, for n >= 0 and d > 0 *)
RoundDiv(n, d) == (2 * n + d) \div (2 * d)

(* floor(a * b / d) without overflowing 32 bits, for a, b >= 0 and d > 0 *)
MulDiv(a, b, d) == (a \div d) * b + ((a % d) * b) \div d

-----------------------------------------------------------------------------
(* Constants of color-ramp-hsl.js *)

SCALES == <<50, 100, 200, 300, 400, 500, 600, 700, 800, 900, 950>>

ScaleSet == {SCALES[i] : i \in 1..Len(SCALES)}

IndexOf(scale) == CHOOSE i \in 1..Len(SCALES) : SCALES[i] = scale

WHITE_HEX == <<255, 255, 255>>

BLACK_HEX == <<0, 0, 0>>

(* '#0D0D0D', the "black" text colour *)
TEXT_BLACK == <<13, 13, 13>>

NEUTRAL_GRAY_LIGHTNESS_PROFILE ==
  (50 :> 9800) @@ (100 :> 9600) @@ (200 :> 9100) @@ (300 :> 8400) @@
  (400 :> 6700) @@ (500 :> 4600) @@ (600 :> 3400) @@ (700 :> 2600) @@
  (800 :> 1700) @@ (900 :> 1000) @@ (950 :> 300)

REVERSED_NEUTRAL_GRAY_LIGHTNESS_PROFILE ==
  (50 :> 300) @@ (100 :> 1000) @@ (200 :> 1700) @@ (300 :> 2600) @@
  (400 :> 3400) @@ (500 :> 4600) @@ (600 :> 6700) @@ (700 :> 8400) @@
  (800 :> 9100) @@ (900 :> 9600) @@ (950 :> 9800)

-----------------------------------------------------------------------------
(* tinycolor: colours, conversions, luminance *)

(* c <= 0.03928 ? c / 12.92 : ((c + 0.055) / 1.055) ^ 2.4, for the 256     *)
(* channel bytes, in units of 1/100000; entry v + 1 is the value of byte v *)
LinearTable ==
  << 0, 30, 61, 91, 121, 152, 182, 212, 243, 273, 304, 335, 368, 402, 439, 478,
     518, 561, 605, 651, 700, 750, 802, 857, 913, 972, 1033, 1096, 1161, 1229, 1298, 1370,
     1444, 1521, 1600, 1681, 1764, 1850, 1938, 2029, 2122, 2217, 2315, 2416, 2519, 2624, 2732, 2843,
     2956, 3071, 3190, 3310, 3434, 3560, 3689, 3820, 3955, 4092, 4231, 4374, 4519, 4667, 4817, 4971,
     5127, 5286, 5448, 5613, 5781, 5951, 6125, 6301, 6480, 6663, 6848, 7036, 7227, 7421, 7619, 7819,
     8022, 8228, 8438, 8650, 8866, 9084, 9306, 9531, 9759, 9990, 10224, 10462, 10702, 10946, 11193, 11444,
     11697, 11954, 12214, 12477, 12744, 13014, 13287, 13563, 13843, 14126, 14413, 14703, 14996, 15293, 15593, 15896,
     16203, 16513, 16827, 17144, 17465, 17789, 18116, 18447, 18782, 19120, 19462, 19807, 20156, 20508, 20864, 21223,
     21586, 21953, 22323, 22697, 23074, 23455, 23840, 24228, 24620, 25016, 25415, 25818, 26225, 26636, 27050, 27468,
     27889, 28315, 28744, 29177, 29614, 30054, 30499, 30947, 31399, 31855, 32314, 32778, 33245, 33716, 34191, 34670,
     35153, 35640, 36131, 36625, 37124, 37626, 38133, 38643, 39157, 39676, 40198, 40724, 41254, 41789, 42327, 42869,
     43415, 43966, 44520, 45079, 45641, 46208, 46778, 47353, 47932, 48515, 49102, 49693, 50289, 50888, 51492, 52100,
     52712, 53328, 53948, 54572, 55201, 55834, 56471, 57112, 57758, 58408, 59062, 59720, 60383, 61050, 61721, 62396,
     63076, 63760, 64448, 65141, 65837, 66539, 67244, 67954, 68669, 69387, 70110, 70838, 71569, 72306, 73046, 73791,
     74540, 75294, 76052, 76815, 77582, 78354, 79130, 79910, 80695, 81485, 82279, 83077, 83880, 84687, 85499, 86316,
     87137, 87962, 88792, 89627, 90466, 91310, 92158, 93011, 93869, 94731, 95597, 96469, 97345, 98225, 99110, 100000 >>

(* relative luminance 0.2126 R + 0.7152 G + 0.0722 B of an sRGB byte       *)
(* triple, in units of 1/10000000                                          *)
getLuminance(rgb) ==
  (2126 * LinearTable[rgb[1] + 1] + 7152 * LinearTable[rgb[2] + 1]
     + 722 * LinearTable[rgb[3] + 1]) \div 100

(* bound01(convertToPercentage(v), 100) for a saturation or lightness:     *)
(* a value up to 1 is read as a fraction (negative values clamp to 0); a   *)
(* value above 1 is read as a percentage, so 1.02 becomes 0.0102           *)
Bound01(v) == IF v <= 10000 THEN Max(0, v) ELSE Min(10000, v \div 100)

(* bound01(h, 360): the hue clamped to 0..360, 360 itself wrapping to 0 *)
BoundHue(h) == IF h <= 0 \/ h >= 36000 THEN 0 ELSE h

(* hue2rgb(p, q, t) of hslToRgb; p and q in units of 1/100000000, t in     *)
(* units of 1/36000 turn                                                   *)
hue2rgb(p, q, t0) ==
  LET t == IF t0 < 0 THEN t0 + 36000 ELSE IF t0 > 36000 THEN t0 - 36000 ELSE t0
  IN  IF t < 6000 THEN p + MulDiv(q - p, t, 6000)
      ELSE IF t < 18000 THEN q
      ELSE IF t < 24000 THEN p + MulDiv(q - p, 24000 - t, 6000)
      ELSE p

(* Math.round(channel * 255) of a channel in units of 1/100000000 *)
ToByte(c8) == ((c8 \div 100) * 255 + 500000) \div 1000000

(* hslToRgb followed by the rounding of toHexString *)
hslToRgb(h, s, l) ==
  IF s = 0
  THEN LET v == ToByte(l * 10000) IN <<v, v, v>>
  ELSE LET q == IF l < 5000 THEN l * (10000 + s) ELSE (l + s) * 10000 - l * s
           p == 2 * l * 10000 - q
       IN  << ToByte(hue2rgb(p, q, h + 12000)),
              ToByte(hue2rgb(p, q, h)),
              ToByte(hue2rgb(p, q, h - 12000)) >>

(* tinycolor({h, s, l}): the colour, with the h, s, l that toHsl() gives   *)
(* back (r = g = b reads as h = 0, s = 0) and the bytes of toHexString()   *)
tinycolor(h, s, l) ==
  LET ss == Bound01(s)
      ll == Bound01(l)
      hh == BoundHue(h)
      gray == ss = 0 \/ ll = 0 \/ ll = 10000
  IN  [ h   |-> IF gray THEN 0 ELSE hh,
        s   |-> IF gray THEN 0 ELSE ss,
        l   |-> ll,
        rgb |-> hslToRgb(hh, ss, ll),
        fmt |-> "hsl" ]

Max3(rgb) == Max(rgb[1], Max(rgb[2], rgb[3]))

Min3(rgb) == Min(rgb[1], Min(rgb[2], rgb[3]))

(* the hue of rgbToHsl in units of 1/100 degree, for max > min *)
rgbHue(rgb) ==
  LET mx == Max3(rgb)
      d  == mx - Min3(rgb)
      r  == rgb[1]
      g  == rgb[2]
      b  == rgb[3]
      h6 == IF mx = r
            THEN (IF g < b THEN 36000 ELSE 0)
                   + (IF g >= b THEN RoundDiv(6000 * (g - b), d)
                                ELSE -RoundDiv(6000 * (b - g), d))
            ELSE IF mx = g
            THEN 12000 + (IF b >= r THEN RoundDiv(6000 * (b - r), d)
                                    ELSE -RoundDiv(6000 * (r - b), d))
            ELSE 24000 + (IF r >= g THEN RoundDiv(6000 * (r - g), d)
                                    ELSE -RoundDiv(6000 * (g - r), d))
  IN  IF h6 >= 36000 THEN h6 - 36000 ELSE h6

(* tinycolor('#rrggbb'): the bytes are kept; h, s, l are what toHsl()       *)
(* computes from them, s and l cut to the 1/10000 grid as every later      *)
(* tinycolor({h, s, l}) cuts them                                          *)
tinycolorHex(rgb) ==
  LET mx  == Max3(rgb)
      mn  == Min3(rgb)
      sum == mx + mn
  IN  IF mx = mn
      THEN [h |-> 0, s |-> 0, l |-> (sum * 10000) \div 510, rgb |-> rgb, fmt |-> "hex"]
      ELSE [ h   |-> rgbHue(rgb),
             s   |-> IF sum > 255 THEN ((mx - mn) * 10000) \div (510 - sum)
                                  ELSE ((mx - mn) * 10000) \div sum,
             l   |-> (sum * 10000) \div 510,
             rgb |-> rgb,
             fmt |-> "hex" ]

(* color.clone() is tinycolor(color.toString()): a colour read from a hex   *)
(* string prints as that string; a colour made from h, s, l prints as       *)
(* "hsl(h, s%, l%)" with whole degrees and whole percents                   *)
clone(color) ==
  IF color.fmt = "hex" THEN color
  ELSE tinycolor(RoundDiv(color.h, 100) * 100, RoundDiv(color.s, 100) * 100,
                 RoundDiv(color.l, 100) * 100)

(* color.toHexString() *)
toHexString(color) == color.rgb

(* tinycolor.readability(c1, c2) = (lighter + 0.05) / (darker + 0.05) on   *)
(* byte triples, in units of 1/10000, rounded down (long division)         *)
readability(rgb1, rgb2) ==
  LET x  == getLuminance(rgb1) + 500000
      y  == getLuminance(rgb2) + 500000
      a  == Max(x, y)
      d  == Min(x, y)
      r1 == a % d
      r2 == (r1 * 100) % d
  IN  (a \div d) * 10000 + ((r1 * 100) \div d) * 100 + (r2 * 100) \div d

(* calculateContrastRatio(color1, color2) *)
calculateContrastRatio(color1, color2) == readability(color1.rgb, color2.rgb)

-----------------------------------------------------------------------------
(* color-ramp-hsl.js: ramps.  A ramp is a function from scale keys to       *)
(* colours; the code's "ramp[scale] = color" adds the key when it is new.   *)

EmptyRamp == [k \in {} |-> 0]

(* Put that also writes a twelfth key *)
Put_twelfthKey(ramp, scale, color) ==
  [k \in DOMAIN ramp \cup {scale, 1000} |-> IF k \in DOMAIN ramp \ {scale} THEN ramp[k] ELSE color]

Put(ramp, scale, color) ==
  [k \in DOMAIN ramp \cup {scale} |-> IF k = scale THEN color ELSE ramp[k]]

(* Array.prototype.forEach over SCALES[from..to] with an accumulator *)
RECURSIVE ForEachScale(_, _, _, _)
ForEachScale(Body(_, _), acc, from, to) ==
  IF from > to THEN acc
  ELSE ForEachScale(Body, Body(acc, SCALES[from]), from + 1, to)

smoothStepNum(a, b) == a * a * (3 * b - 2 * a)

(* smoothStep(a / b) times x, rounded down: t * t * (3 - 2 * t) with t     *)
(* clamped to 0..1                                                         *)
smoothStep(x, a0, b) ==
  LET a == Max(0, Min(b, a0))
  IN  (x * smoothStepNum(a, b)) \div (b * b * b)

(* the text colour of a swatch: '#0D0D0D' or '#FFFFFF' *)
getContrastingTextColor(bg) ==
  LET rb == readability(bg.rgb, TEXT_BLACK)
      rw == readability(bg.rgb, WHITE_HEX)
  IN  IF rb >= 45000 /\ rw >= 45000
      THEN (IF rb > rw THEN TEXT_BLACK ELSE WHITE_HEX)
      ELSE IF rb >= 45000 THEN TEXT_BLACK
      ELSE IF rw >= 45000 THEN WHITE_HEX
      ELSE IF getLuminance(bg.rgb) > 5000000 THEN TEXT_BLACK ELSE WHITE_HEX

generatePureGrayscaleRamp(baseHex, baseScaleKey, useReversedProfile) ==
  LET profile == IF useReversedProfile THEN REVERSED_NEUTRAL_GRAY_LIGHTNESS_PROFILE
                 ELSE NEUTRAL_GRAY_LIGHTNESS_PROFILE
      Body(ramp, scale) ==
        Put(ramp, scale, IF scale = baseScaleKey THEN tinycolorHex(baseHex)
                         ELSE tinycolor(0, 0, profile[scale]))
  IN  ForEachScale(Body, EmptyRamp, 1, Len(SCALES))

(* lower bounds of the lightness bands of lightModeRanges; the band of a   *)
(* scale ends where the band of the next lighter scale begins              *)
LightModeMin ==
  (50 :> 9500) @@ (100 :> 9000) @@ (200 :> 8000) @@ (300 :> 7000) @@
  (400 :> 6000) @@ (500 :> 5000) @@ (600 :> 4000) @@ (700 :> 3000) @@
  (800 :> 2000) @@ (900 :> 1000) @@ (950 :> 0)

LightModeMax ==
  (50 :> 10000) @@ (100 :> 9500) @@ (200 :> 9000) @@ (300 :> 8000) @@
  (400 :> 7000) @@ (500 :> 6000) @@ (600 :> 5000) @@ (700 :> 4000) @@
  (800 :> 3000) @@ (900 :> 2000) @@ (950 :> 1000)

(* darkModeRanges is lightModeRanges with the scale order reversed *)
Mirror(scale) == SCALES[Len(SCALES) + 1 - IndexOf(scale)]

determineBaseScale(color, isDarkMode) ==
  LET lightness == color.l
      hit == {k \in ScaleSet :
                LET b == IF isDarkMode THEN Mirror(k) ELSE k
                IN  lightness >= LightModeMin[b] /\ lightness < LightModeMax[b]}
  IN  IF hit = {} THEN 500 ELSE CHOOSE k \in hit : TRUE

(* SPECIAL_COLOR_RANGES / getSpecialColorHandling: the minimum saturation  *)
(* of the first band with minHue <= hue <= maxHue, 0 when there is none    *)
(* (the band 350..30 has minHue > maxHue and matches no hue)               *)
getSpecialColorHandling(hue) ==
  IF hue >= 20000 /\ hue <= 26000 THEN 5500
  ELSE IF hue >= 8000 /\ hue <= 16000 THEN 5000
  ELSE IF hue >= 35000 /\ hue <= 3000 THEN 6000
  ELSE IF hue >= 27000 /\ hue <= 33000 THEN 5000
  ELSE 0

referenceLightness ==
  (50 :> 9700) @@ (100 :> 9200) @@ (200 :> 8500) @@ (300 :> 7500) @@
  (400 :> 6500) @@ (500 :> 5500) @@ (600 :> 4500) @@ (700 :> 3500) @@
  (800 :> 2500) @@ (900 :> 1500) @@ (950 :> 800)

generateLightRampWithExactBase(baseColor) ==
  LET dynamicBaseScale == determineBaseScale(baseColor, FALSE)
      isExtremeColor == baseColor.l > 9500 \/ baseColor.l < 1000 \/ baseColor.s < 500
      veryLight == baseColor.l > 9500
      veryDark  == ~veryLight /\ baseColor.l < 1000
      baseH == IF isExtremeColor /\ ~veryLight /\ ~veryDark THEN 0 ELSE baseColor.h
      baseS == IF veryLight \/ veryDark THEN Max(1000, baseColor.s)
               ELSE IF isExtremeColor THEN 0 ELSE baseColor.s
      baseL == IF veryLight THEN 9000 ELSE IF veryDark THEN 1500 ELSE baseColor.l
      isPinkish == (baseH >= 30000 /\ baseH <= 36000) \/ (baseH >= 0 /\ baseH <= 3000)
      isGreenish == baseH >= 9000 /\ baseH <= 15000
      targetL(scale) ==
        LET refL == referenceLightness[scale]
        IN  IF isExtremeColor THEN refL
            ELSE IF scale < dynamicBaseScale THEN refL
            ELSE IF scale > dynamicBaseScale
            THEN IF isPinkish \/ isGreenish
                 THEN Max(500, baseL - (IndexOf(scale) - IndexOf(dynamicBaseScale)) * 1200)
                 ELSE Max(500, Min(refL, (baseL * refL) \div referenceLightness[dynamicBaseScale]))
            ELSE baseL
      Body(ramp, scale) ==
        LET currentColor == IF scale = dynamicBaseScale /\ ~isExtremeColor
                            THEN clone(baseColor)
                            ELSE tinycolor(baseH, baseS, targetL(scale))
        IN  Put(ramp, scale, IF baseColor.s < 100
                             THEN tinycolor(baseColor.h, 0, currentColor.l)
                             ELSE currentColor)
  IN  ForEachScale(Body, EmptyRamp, 1, Len(SCALES))

(* Math.max of the contrast of a colour with '#0D0D0D' and with '#FFFFFF' *)
bestContrast(color) ==
  Max(readability(color.rgb, TEXT_BLACK), readability(color.rgb, WHITE_HEX))

(* the AA repair of one dark-ramp colour: AA_MIN_CONTRAST - EPSILON = 4.48 *)
adjustForAA(color, isGrayscale) ==
  IF bestContrast(color) >= 44800 THEN color
  ELSE IF isGrayscale
  THEN IF readability(color.rgb, TEXT_BLACK) > readability(color.rgb, WHITE_HEX)
       THEN tinycolor(0, 0, Min(9850, color.l + 1000))
       ELSE tinycolor(0, 0, Max(1000, color.l - 1000))
  ELSE LET adjustedS == Min(10000, (color.s * 3) \div 2)
           first == tinycolor(color.h, adjustedS, color.l)
       IN  IF bestContrast(first) < 44800
           THEN tinycolor(color.h, adjustedS,
                          IF color.l > 5000 THEN Max(500, color.l - 1000)
                          ELSE Min(9500, color.l + 1000))
           ELSE first

generateDarkRampWithExactBase(baseColor) ==
  LET dynamicBaseScale == determineBaseScale(baseColor, TRUE)
      specialColor == getSpecialColorHandling(baseColor.h)
      isGrayscale == baseColor.s < 500
      isExtremeColor == baseColor.l > 9500 \/ baseColor.l < 1000 \/ isGrayscale
      baseH == IF isGrayscale THEN 0 ELSE baseColor.h
      baseL == IF isGrayscale THEN Max(500, Min(9850, baseColor.l))
               ELSE IF baseColor.l > 9500 THEN 8500
               ELSE IF baseColor.l < 1000 THEN 1500
               ELSE baseColor.l
      minSaturation == IF specialColor = 0 THEN 3000 ELSE specialColor
      baseS == IF isGrayscale THEN 0
               ELSE Max(minSaturation,
                        IF isExtremeColor THEN Max(3000, baseColor.s) ELSE baseColor.s)
      normalizedBaseL == Max(1000, Min(9000, baseL))
      minLightness == 1000
      maxLightness == IF isGrayscale THEN 9850 ELSE 9500
      basePosition == IndexOf(dynamicBaseScale) - 1
      totalSteps == Len(SCALES) - 1
      lightnessValues(scale) ==
        LET index == IndexOf(scale) - 1
        IN  IF scale = dynamicBaseScale /\ ~isExtremeColor THEN normalizedBaseL
            ELSE LET targetL ==
                       IF index <= basePosition
                       THEN IF basePosition > 0
                            THEN minLightness
                                   + smoothStep(normalizedBaseL - minLightness, index, basePosition)
                            ELSE normalizedBaseL
                       ELSE normalizedBaseL
                              + smoothStep(maxLightness - normalizedBaseL,
                                           index - basePosition, totalSteps - basePosition)
                 IN  Max(10, Min(9990, targetL))
      Body(ramp, scale) ==
        LET targetL == lightnessValues(scale)
            color == IF isGrayscale THEN tinycolor(0, 0, targetL)
                     ELSE IF scale = dynamicBaseScale /\ ~isExtremeColor
                     THEN tinycolor(baseH, baseS, baseL)
                     ELSE tinycolor(baseH, baseS, targetL)
        IN  Put(ramp, scale, adjustForAA(color, isGrayscale))
  IN  ForEachScale(Body, EmptyRamp, 1, Len(SCALES))

createVariedBaseColor(baseColor, forLightMode) ==
  LET variedColor ==
        IF forLightMode
        THEN tinycolor(baseColor.h, Min(10000, baseColor.s + 300), Min(9500, baseColor.l + 300))
        ELSE tinycolor(baseColor.h, Max(0, baseColor.s - 300), Max(500, baseColor.l - 300))
  IN  IF baseColor.s < 100 THEN tinycolor(baseColor.h, 0, variedColor.l)
      ELSE variedColor

(* the hex values of a ramp's swatches *)
HexesOf(ramp) == {ramp[k].rgb : k \in DOMAIN ramp}

(* a colour with another lightness: tinycolor({h: hsl.h, s: hsl.s, l}) *)
WithL(color, l) == tinycolor(color.h, color.s, l)

darkeningAmount(scale) ==
  IF scale <= 300 THEN 2000
  ELSE IF scale <= 700 THEN 1800
  ELSE IF scale <= 800 THEN 1500
  ELSE IF scale = 900 THEN 1000
  ELSE 500

(* forceDarkModeDistinctness, loop over adjacent scales: the next scale is *)
(* raised to the current one plus minDifference                            *)
RECURSIVE ensureMinDifference(_, _, _, _)
ensureMinDifference(darkRamp, i, minDifference, maxLightness) ==
  IF i >= Len(SCALES) THEN darkRamp
  ELSE LET currentL == darkRamp[SCALES[i]].l
           next == darkRamp[SCALES[i + 1]]
       IN  ensureMinDifference(
             IF next.l - currentL < minDifference
             THEN Put(darkRamp, SCALES[i + 1],
                      WithL(next, Min(maxLightness, currentL + minDifference)))
             ELSE darkRamp,
             i + 1, minDifference, maxLightness)

(* forceDarkModeDistinctness, pass over the dark ramp with the map          *)
(* darkModeColors from hex to the scale that holds it                       *)
RECURSIVE dedupeWithinDark(_, _, _, _)
dedupeWithinDark(darkRamp, darkModeColors, i, isGreen) ==
  IF i > Len(SCALES) THEN darkRamp
  ELSE LET scale == SCALES[i]
           darkColor == darkRamp[scale]
       IN  IF darkColor.rgb \in DOMAIN darkModeColors
           THEN LET existingScale == darkModeColors[darkColor.rgb]
                    amount == IF isGreen THEN 500 ELSE 800
                    newLightness ==
                      IF scale = 950
                      THEN (IF isGreen THEN Max(9200, darkColor.l) ELSE Max(9500, darkColor.l))
                      ELSE IF scale = 900
                      THEN (IF isGreen THEN Max(8500, Min(9100, darkColor.l))
                            ELSE Max(9000, Min(9400, darkColor.l)))
                      ELSE IF scale > existingScale THEN Min(8900, darkColor.l + amount)
                      ELSE Max(500, darkColor.l - amount)
                    newSaturation == IF isGreen THEN darkColor.s
                                     ELSE (darkColor.s * 9) \div 10
                    newColor == tinycolor(darkColor.h, newSaturation, newLightness)
                IN  dedupeWithinDark(Put(darkRamp, scale, newColor),
                                     Put(darkModeColors, newColor.rgb, scale),
                                     i + 1, isGreen)
           ELSE dedupeWithinDark(darkRamp, Put(darkModeColors, darkColor.rgb, scale),
                                 i + 1, isGreen)

(* returns the dark ramp; the light ramp is only read *)
forceDarkModeDistinctness(lightRamp, darkRamp) ==
  LET lightModeColors == HexesOf(lightRamp)
      First(ramp, scale) ==
        IF darkRamp[scale].rgb \in lightModeColors
        THEN Put(ramp, scale,
                 WithL(darkRamp[scale], Max(500, darkRamp[scale].l - darkeningAmount(scale))))
        ELSE ramp
      d1 == ForEachScale(First, darkRamp, 1, Len(SCALES))
      baseHue == d1[500].h
      isGreen == baseHue >= 9000 /\ baseHue <= 15000
      d2 == ensureMinDifference(d1, 1, IF isGreen THEN 500 ELSE 700,
                                IF isGreen THEN 9500 ELSE 9700)
      d3 == dedupeWithinDark(d2, EmptyRamp, 1, isGreen)
      (* every retry of the final loop recomputes the same colour from the  *)
      (* colour it started with                                             *)
      Last(ramp, scale) ==
        IF d3[scale].rgb \in lightModeColors
        THEN Put(ramp, scale, WithL(d3[scale], Max(500, d3[scale].l - 500)))
        ELSE ramp
  IN  ForEachScale(Last, d3, 1, Len(SCALES))

(* ensureDarkMode950IsLightest, loop from 950 down to 50 *)
RECURSIVE ensureProgression(_, _)
ensureProgression(darkRamp, i) ==
  IF i <= 1 THEN darkRamp
  ELSE LET currentScale == SCALES[i]
           nextScale == SCALES[i - 1]
           currentL == darkRamp[currentScale].l
           nextL == darkRamp[nextScale].l
           minDifference == Max(300, (currentScale - nextScale) * 100)
       IN  ensureProgression(
             IF currentL <= nextL
             THEN Put(darkRamp, nextScale,
                      WithL(darkRamp[nextScale], Max(500, nextL - minDifference)))
             ELSE darkRamp,
             i - 1)

ensureDarkMode950IsLightest(darkRamp) ==
  LET l900old == darkRamp[900].l
      l950 == darkRamp[950].l
      d1 == IF l900old < 9000 THEN Put(darkRamp, 900, WithL(darkRamp[900], 9000))
            ELSE darkRamp
      l900 == Max(9000, l900old)
      d2 == IF l950 < 9500 \/ l950 <= l900
            THEN Put(d1, 950, WithL(d1[950], Max(9500, l900 + 500)))
            ELSE d1
  IN  ensureProgression(d2, Len(SCALES))

adjustDarkRamp100Shade(darkRamp) ==
  LET l50 == darkRamp[50].l
      l100_initial == darkRamp[100].l
      l200 == darkRamp[200].l
      (* lightness in units of 1/1000000 *)
      rawTargetL100 == l50 * 100 + (l200 - l50) * 33
      minL100_bound == (l50 + 150) * 100
      maxL100_bound == (l200 - 150) * 100
      targetL100 == Max(1000, Min(999000,
                        Min(maxL100_bound, Max(minL100_bound, rawTargetL100))))
  IN  IF maxL100_bound > minL100_bound /\ Abs(l100_initial * 100 - targetL100) > 1000
      THEN Put(darkRamp, 100, WithL(darkRamp[100], targetL100 \div 100))
      ELSE darkRamp

(* amount is 0.01 unless given *)
globallyLightenDarkRamp(darkRamp, isDefaultDarkRamp, baseScaleOfDefaultDarkRamp, amount) ==
  [scale \in DOMAIN darkRamp |->
     LET color == darkRamp[scale]
         newLightness == color.l + amount
         isGrayscale == color.s < 500
     IN  IF isDefaultDarkRamp /\ scale = baseScaleOfDefaultDarkRamp THEN color
         ELSE IF newLightness >= 9900
         THEN (IF isGrayscale THEN tinycolor(0, 0, 9850)
               ELSE tinycolor(color.h, color.s, Min(9900, newLightness)))
         ELSE IF isGrayscale THEN tinycolor(0, 0, Min(9850, newLightness))
         ELSE tinycolor(color.h, color.s, newLightness)]

(* (hue + shift) % 360 of JavaScript: the sign follows the dividend *)
HueMod(h) == IF h >= 0 THEN h % 36000 ELSE -((-h) % 36000)

(* Math.random() * x for a draw r in units of 1/10000 *)
Times(r, x) == (r * x) \div 10000

-----------------------------------------------------------------------------
(* guaranteeUniqueColors *)

(* allColors: the light swatches in scale order, then the dark ones *)
allColors(light, dark) ==
  LET Track(rampType, ramp) ==
        LET Body(acc, scale) ==
              IF scale \in DOMAIN ramp
              THEN Append(acc, [hex |-> ramp[scale].rgb, rampType |-> rampType,
                                scale |-> scale, color |-> ramp[scale]])
              ELSE acc
        IN  ForEachScale(Body, <<>>, 1, Len(SCALES))
  IN  Track("light", light) \o Track("dark", dark)

(* findDuplicates that takes the first colour for a duplicate *)
findDuplicates_firstFlagged(all, i, seen, duplicates) ==
  [seen |-> {all[k].hex : k \in 1..Len(all)},
   duplicates |-> IF Len(all) > 0 THEN <<all[1]>> ELSE <<>>]

RECURSIVE findDuplicates(_, _, _, _)
findDuplicates(all, i, seen, duplicates) ==
  IF i > Len(all) THEN [seen |-> seen, duplicates |-> duplicates]
  ELSE IF all[i].hex \in seen
       THEN findDuplicates(all, i + 1, seen, Append(duplicates, all[i]))
       ELSE findDuplicates(all, i + 1, seen \cup {all[i].hex}, duplicates)

lightnessAdjustment(info) ==
  IF info.rampType = "light" THEN (IF info.scale <= 500 THEN 1000 ELSE -1000)
  ELSE (IF info.scale >= 500 THEN 1000 ELSE -1000)

(* the colour tried at one attempt of the perturbation loop *)
perturbed(info, attempts) ==
  LET hsl == info.color
      la == lightnessAdjustment(info)
  IN  IF hsl.s < 500
      THEN tinycolor(0, 0, Max(1000, Min(9850, hsl.l + (la * attempts) \div 100)))
      ELSE LET sa == (-la) * (IF attempts > 3 THEN attempts - 2 ELSE 0)
               hueAdjustment == IF attempts > 6 THEN (attempts - 5) * 500 ELSE 0
           IN  tinycolor(HueMod(hsl.h + hueAdjustment),
                         Max(500, Min(9500, hsl.s + sa)),
                         Max(500, Min(9500, hsl.l + la * attempts)))

maxAttempts == 10

(* while (seen.has(newHex) && attempts < maxAttempts) *)
RECURSIVE perturbLoop(_, _, _, _)
perturbLoop(info, seen, newColor, attempts) ==
  IF newColor.rgb \in seen /\ attempts < maxAttempts
  THEN perturbLoop(info, seen, perturbed(info, attempts + 1), attempts + 1)
  ELSE newColor

(* the "nuclear option" with the three Math.random() draws r1, r2, r3 *)
nuclearOption(info, r1, r2, r3) ==
  LET hsl == info.color
      low == IF info.rampType = "light" THEN info.scale <= 500 ELSE info.scale >= 500
  IN  IF hsl.s < 500
      THEN LET newLightness ==
                 IF info.rampType = "light"
                 THEN (IF low THEN 8000 + Times(r1, 1500) ELSE 1000 + Times(r1, 2000))
                 ELSE (IF low THEN 7000 + Times(r1, 2800) ELSE 1000 + Times(r1, 2000))
           IN  tinycolor(0, 0, Min(9850, newLightness))
      ELSE tinycolor(HueMod(hsl.h + 3000 + Times(r1, 6000)),
                     5000 + Times(r2, 4000),
                     IF low THEN 8000 + Times(r3, 1500) ELSE 1000 + Times(r3, 2000))

(* how many times the fix of one duplicate calls Math.random(): not at all *)
(* when an attempt found a free hex, once for a gray, three times otherwise *)
randomCalls(info, seen) ==
  IF perturbLoop(info, seen, info.color, 0).rgb \notin seen THEN 0
  ELSE IF info.color.s < 500 THEN 1 ELSE 3

(* the replacement of one duplicate *)
resolveDuplicate(info, seen, r1, r2, r3) ==
  LET tried == perturbLoop(info, seen, info.color, 0)
  IN  IF tried.rgb \in seen THEN nuclearOption(info, r1, r2, r3) ELSE tried

-----------------------------------------------------------------------------
(* ensureLightRamp950ContrastAndUniqueness *)

(* tinycolor.readability(bgLight, a) <= tinycolor.readability(bgLight, b)  *)
(* against the white page background: a is at least as luminous as b       *)
contrastNotAbove(a, b) == getLuminance(a.rgb) >= getLuminance(b.rgb)

maxContrastAttempts == 15

(* the contrast loop; hsl950 is carried with s in units of 1/100000, since *)
(* the saturation steps are multiples of 0.0005                            *)
RECURSIVE contrastLoop(_, _, _, _)
contrastLoop(color950, color900, hsl950, attempts) ==
  IF contrastNotAbove(color950, color900) /\ attempts < maxContrastAttempts
  THEN LET a == attempts + 1
           next == [h |-> hsl950.h,
                    s |-> Min(100000, hsl950.s + 200 + 50 * a),
                    l |-> Max(100, hsl950.l - (50 + 10 * a))]
       IN  contrastLoop(tinycolor(next.h, next.s \div 10, next.l), color900, next, a)
  ELSE color950

maxUniqueAttempts == 10

RECURSIVE uniqueLoop(_, _, _, _)
uniqueLoop(current, color900, seenHexSet, uniqueAttempts) ==
  IF current.rgb \in seenHexSet /\ uniqueAttempts < maxUniqueAttempts
  THEN LET ua == uniqueAttempts + 1
           L_ADJUST == 20 * (ua - 5)
           potentialLighterL == Min(9900, current.l + L_ADJUST)
           potentialDarkerL == Max(100, current.l - L_ADJUST)
           colorTryDarker == tinycolor(current.h, current.s, potentialDarkerL)
           next == IF ua <= 5
                   THEN tinycolor(HueMod(current.h + ua * 200), current.s, current.l)
                   ELSE IF ~contrastNotAbove(colorTryDarker, color900)
                   THEN colorTryDarker
                   ELSE tinycolor(current.h, current.s, potentialLighterL)
       IN  uniqueLoop(next, color900, seenHexSet, ua)
  ELSE current

(* returns the light ramp and the set of seen hexes; r1, r2, r3 are the    *)
(* three Math.random() draws of the last resort                            *)
ensureLightRamp950ContrastAndUniqueness(lightRamp, seenHexSet, r1, r2, r3) ==
  LET color900 == lightRamp[900]
      original == lightRamp[950]
      color950 == IF contrastNotAbove(original, color900)
                  THEN contrastLoop(original, color900,
                                    [h |-> original.h, s |-> original.s * 10,
                                     l |-> original.l], 0)
                  ELSE original
      seen1 == IF color950.rgb # original.rgb THEN seenHexSet \ {original.rgb}
               ELSE seenHexSet
      tried == uniqueLoop(clone(color950), color900, seen1, 0)
      final == IF color950.rgb \notin seen1 THEN color950
               ELSE IF tried.rgb \in seen1
               THEN tinycolor(HueMod(tried.h + Times(r1, 1000) - 500),
                              Max(500, Min(9500, tried.s + Times(r2, 1000) - 500)),
                              Max(100, Min(3000, tried.l + Times(r3, 200) - 100)))
               ELSE tried
  IN  [lightRamp |-> Put(lightRamp, 950, final),
       seenSet |-> seen1 \cup {final.rgb}]

-----------------------------------------------------------------------------
(* updateColorRamps: the pieces written inline in the handler *)

(* dark default: scales above the base are raised to base + 0.04 per step, *)
(* scales below are lowered to base - 0.05 per step                        *)
enforceAroundBase(darkRamp, baseColor, baseScale) ==
  LET baseIndex == IndexOf(baseScale)
      Body(ramp, scale) ==
        LET i == IndexOf(scale)
            minLightness == baseColor.l + (i - baseIndex) * 400
            maxLightness == baseColor.l - (baseIndex - i) * 500
        IN  IF i > baseIndex /\ ramp[scale].l < minLightness
            THEN Put(ramp, scale, WithL(ramp[scale], minLightness))
            ELSE IF i < baseIndex /\ ramp[scale].l > maxLightness
            THEN Put(ramp, scale, WithL(ramp[scale], maxLightness))
            ELSE ramp
  IN  ForEachScale(Body, darkRamp, 1, Len(SCALES))

(* light default: the dark scale closest to the base colour;               *)
(* totalDiff = brightnessDiff * 0.7 + hueDiff * 0.3, here times 900000     *)
totalDiff(baseColor, color) ==
  LET dh == Abs(baseColor.h - color.h)
  IN  63 * Abs(baseColor.l - color.l) + 15 * Min(dh, 36000 - dh)

closestScale(baseColor, darkRamp) ==
  LET best == CHOOSE k \in DOMAIN darkRamp :
                \A j \in DOMAIN darkRamp :
                   \/ totalDiff(baseColor, darkRamp[k]) < totalDiff(baseColor, darkRamp[j])
                   \/ (totalDiff(baseColor, darkRamp[k]) = totalDiff(baseColor, darkRamp[j])
                         /\ k <= j)
  IN  best

(* the lightness boost of the darker dark-ramp shades of a gray input *)
grayDarkerShadeBoost(darkRamp, isDarkModeDefault, actualDarkBaseScale) ==
  LET Body(ramp, scale) ==
        IF scale \in DOMAIN ramp /\ ~(isDarkModeDefault /\ scale = actualDarkBaseScale)
        THEN Put(ramp, scale, tinycolor(0, 0, Min(10000, ramp[scale].l + 200)))
        ELSE ramp
  IN  adjustDarkRamp100Shade(ForEachScale(Body, darkRamp, 1, 5))

-----------------------------------------------------------------------------
(* updateRampUI of color-ramp-hsl.js: what one swatch displays *)

(* ratio.toFixed(2), in hundredths *)
toFixed2(ratio10k) == RoundDiv(ratio10k, 100)

swatchOf_hsl(color, scale, baseScale) ==
  LET textColor == getContrastingTextColor(color)
      ratio == toFixed2(readability(color.rgb, textColor))
  IN  [ hex       |-> color.rgb,
        textColor |-> textColor,
        ratio     |-> ratio,
        base      |-> scale = baseScale,
        failShade |-> ratio < 300,
        badge     |-> IF ratio >= 700 THEN "AAA"
                      ELSE IF ratio >= 300 THEN "AA" ELSE "Fail" ]

updateRampUI_hsl(ramp, baseScale) ==
  [scale \in DOMAIN ramp \cap ScaleSet |-> swatchOf_hsl(ramp[scale], scale, baseScale)]

-----------------------------------------------------------------------------
(* Inputs *)

(* channel values of the base colours tried: 0, 255 and the steps between *)
ChannelLevels == 3

Levels == {(i * 255) \div ChannelLevels : i \in 0..ChannelLevels}

(* further base colours: dark and middle grays, the page's sample colours,  *)
(* a near-gray of saturation 0.032                                         *)
NotableColors ==
  { <<10, 10, 10>>, <<120, 120, 120>>, <<128, 128, 128>>,
    <<0, 204, 0>>, <<59, 130, 246>>, <<120, 120, 128>> }

BaseColors == {<<r, g, b>> : r \in Levels, g \in Levels, b \in Levels} \cup NotableColors

(* number of steps into which the range of Math.random() is cut *)
RandomLevels == 1

RandomDraws == {(i * 9999) \div RandomLevels : i \in 0..RandomLevels}

-----------------------------------------------------------------------------
(* The colour field.  What is typed is one of: nothing; "#rrggbb"; a run of *)
(* decimal digits; numbers separated by blanks; numbers separated by        *)
(* commas; any other text that is no colour.  parts holds the bytes of the  *)
(* hex form, the digits of a run of digits, the numbers of a list.          *)

(* a part of a list that is no number: Number(p) or parseInt(p) is NaN *)
NaN == -1

Typed(form, parts) == [form |-> form, parts |-> parts]

(* what tinycolor(value) makes of a string that is no colour: ok is false   *)
(* and the channels are 0                                                   *)
Null == [ok |-> FALSE, rgb |-> <<0, 0, 0>>]

Parsed(rgb) == [ok |-> TRUE, rgb |-> rgb]

Clamp255(v) == Min(255, Max(0, v))

RECURSIVE DecimalValue(_)
DecimalValue(digits) ==
  IF digits = <<>> THEN 0
  ELSE 10 * DecimalValue(SubSeq(digits, 1, Len(digits) - 1)) + digits[Len(digits)]

(* tinycolor reads "#rrggbb", and a run of 3, 4, 6 or 8 digits as a hex     *)
(* colour without its '#'; a list of numbers without "rgb" is no colour     *)
tinycolorReads(input) ==
  \/ input.form = "hex"
  \/ input.form = "digits" /\ Len(input.parts) \in {3, 4, 6, 8}

tinycolorString(input) ==
  LET d == input.parts
  IN  IF input.form = "hex" THEN Parsed(d)
      ELSE IF input.form = "digits" /\ Len(d) \in {3, 4}
           THEN Parsed(<<17 * d[1], 17 * d[2], 17 * d[3]>>)
      ELSE IF input.form = "digits" /\ Len(d) \in {6, 8}
           THEN Parsed(<<16 * d[1] + d[2], 16 * d[3] + d[4], 16 * d[5] + d[6]>>)
      ELSE Null

someNaN(parts) == \E i \in DOMAIN parts : parts[i] = NaN

(* the two or three numbers of a list, clamped, the blue channel 255 when   *)
(* it is missing; any other list is no colour                               *)
rgbOfParts(parts) ==
  IF Len(parts) = 2 /\ ~someNaN(parts)
  THEN Parsed(<<Clamp255(parts[1]), Clamp255(parts[2]), 255>>)
  ELSE IF Len(parts) = 3 /\ ~someNaN(parts)
  THEN Parsed(<<Clamp255(parts[1]), Clamp255(parts[2]), Clamp255(parts[3])>>)
  ELSE Null

(* HSL page, parseRgbInput(input): the hex string of the colour, or null *)
parseRgbInput_hsl(input) ==
  IF input.form = "empty" THEN Null
  ELSE IF tinycolorReads(input) THEN tinycolorString(input)
  ELSE IF input.form = "digits"
  THEN LET val == Clamp255(DecimalValue(input.parts))
       IN  Parsed(<<val, val, val>>)
  ELSE IF input.form \in {"spaced", "commas"} THEN rgbOfParts(input.parts)
  ELSE Null

(* isValidColor(value) == tinycolor(value).isValid() *)
isValidColor_always(value) == TRUE

isValidColor(value) == value.ok

(* OKLCH page, updateAll's reading of the field, up to new Color(...):     *)
(* ok is false where new Color throws                                       *)
readColorValue(input) ==
  LET d == input.parts
  IN  IF input.form = "empty" THEN Parsed(<<0, 0, 0>>)
      ELSE IF input.form = "hex" THEN Parsed(d)
      ELSE IF input.form = "digits" /\ Len(d) = 6
      THEN Parsed(<<16 * d[1] + d[2], 16 * d[3] + d[4], 16 * d[5] + d[6]>>)
      ELSE IF input.form = "digits" /\ Len(d) = 3
      THEN Parsed(<<17 * d[1], 17 * d[2], 17 * d[3]>>)
      ELSE IF input.form = "digits" /\ Len(d) \in {4, 5}
      THEN Null
      ELSE IF input.form = "digits"
      THEN Parsed(<<Clamp255(DecimalValue(d)), 255, 255>>)
      ELSE IF input.form \in {"spaced", "commas"} /\ ~someNaN(d)
      THEN IF Len(d) = 1 THEN Parsed(<<Clamp255(d[1]), 255, 255>>)
           ELSE IF Len(d) = 2 THEN Parsed(<<Clamp255(d[1]), Clamp255(d[2]), 255>>)
           ELSE IF Len(d) = 3 THEN Parsed(<<Clamp255(d[1]), Clamp255(d[2]), Clamp255(d[3])>>)
           ELSE Null
      ELSE Null

-----------------------------------------------------------------------------
(* State *)

VARIABLES
  pc,                   \* position of the HSL handler updateColorRamps
  baseColor,            \* tinycolor(baseColorString)
  isDarkModeDefault,    \* defaultRampToggle.checked
  currentLightRamp,
  currentDarkRamp,
  actualLightBaseScale,
  actualDarkBaseScale,
  currentSeenSet,       \* the set "seen" of guaranteeUniqueColors
  duplicates,           \* the duplicates guaranteeUniqueColors still has to fix
  resolverInput,        \* the pair guaranteeUniqueColors was called with
  lightSwatches,        \* swatches rendered in #lightRamp by the run in progress
  darkSwatches          \* swatches rendered in #darkRamp by the run in progress

hslVars == << pc, baseColor, isDarkModeDefault, currentLightRamp, currentDarkRamp,
              actualLightBaseScale, actualDarkBaseScale, currentSeenSet, duplicates,
              resolverInput, lightSwatches, darkSwatches >>

VARIABLES
  page,                 \* which engine is loaded, or processRamp called on its own
  okPc,                 \* position of updateAll and of processRamp
  color,                \* the gray byte of the base colour of updateAll
  isDarkDefault,        \* defaultRampToggle.checked
  lightRampRaw,         \* generateRamp(color, true, ...).ramp
  darkRampRaw,          \* generateRamp(color, false, ...).ramp
  lightAnchor,
  darkAnchor,
  rampId,               \* the ramp processRamp is working on
  scaleIndex,           \* position of SCALES.forEach in processRamp
  processed,            \* processRamp: the shades stored so far
  localHexes,
  originalColor,
  processedResult,
  processedLightRamp,
  processedDarkRamp,
  okLightSwatches,      \* swatches rendered in #lightRamp
  okDarkSwatches,       \* swatches rendered in #darkRamp
  collection,           \* collection.colors of the one collection of the session
  exportJson            \* the last themed export, generateJsonStringForFigma

okVars == << okPc, color, isDarkDefault, lightRampRaw, darkRampRaw, lightAnchor,
             darkAnchor, rampId, scaleIndex, processed, localHexes, originalColor,
             processedResult, processedLightRamp, processedDarkRamp,
             okLightSwatches, okDarkSwatches >>

appVars == << collection, exportJson >>

VARIABLES
  colorInputValue,      \* colorInput.value, what is typed in the colour field
  inputError,           \* OKLCH page: the field carries the class 'error'
  modalStack,           \* modalStack: the modal of each entry, the top last
  openModals,           \* the modals carrying the class 'active', in the order they were opened
  lastModalEvent        \* the last event a modal handler has handled

modalVars == << modalStack, openModals, lastModalEvent >>

VARIABLES
  timeout,              \* debounce: 100 ms steps until the pending timer fires, 0 when none
  sinceInput,           \* 100 ms steps since the last 'input' event of the colour field
  inputEvents,          \* number of 'input' events of the colour field so far
  pipelineRuns          \* runs of the handler since the current burst of events began

timerVars == << timeout, sinceInput, inputEvents, pipelineRuns >>

VARIABLES
  collections,          \* getCollections().collections: id, name and colour ids of each
  alerted,              \* the collection name of the last alert "... already exists"
  jsonText,             \* the text generateJsonStringForFigma returned, token by token
  vibrancySelect        \* OKLCH page: the value of #vibrancy-boost-select

storeVars == << collections, alerted, jsonText, vibrancySelect >>

uiVars == << colorInputValue, inputError, modalVars, timerVars, storeVars >>

NoExport == [Light |-> <<>>, Dark |-> <<>>, format |-> "none", keys |-> <<>>]

NoPair == [light |-> EmptyRamp, dark |-> EmptyRamp]

HslInit ==
  /\ pc = "idle"
  /\ baseColor = tinycolorHex(BLACK_HEX)
  /\ isDarkModeDefault = FALSE
  /\ currentLightRamp = EmptyRamp
  /\ currentDarkRamp = EmptyRamp
  /\ actualLightBaseScale = 500
  /\ actualDarkBaseScale = 500
  /\ currentSeenSet = {}
  /\ duplicates = <<>>
  /\ resolverInput = NoPair
  /\ lightSwatches = EmptyRamp
  /\ darkSwatches = EmptyRamp

-----------------------------------------------------------------------------
(* Actions of updateColorRamps, in the order of the handler *)

(* pure white or pure black input: both ramps come from the gray profiles   *)
(* and are rendered at once; the rest of the pipeline is bypassed           *)
PureRamps(hex) ==
  IF hex = WHITE_HEX
  THEN [light |-> generatePureGrayscaleRamp(WHITE_HEX, 50, FALSE),
        dark  |-> globallyLightenDarkRamp(generatePureGrayscaleRamp(WHITE_HEX, 950, TRUE),
                                          TRUE, 950, 150),
        lightBaseScale |-> 50, darkBaseScale |-> 950]
  ELSE [light |-> generatePureGrayscaleRamp(BLACK_HEX, 950, FALSE),
        dark  |-> globallyLightenDarkRamp(generatePureGrayscaleRamp(BLACK_HEX, 50, TRUE),
                                          TRUE, 50, 150),
        lightBaseScale |-> 950, darkBaseScale |-> 50]

(* the generated pair and the base scales, dark ramp default *)
GeneratedDarkDefault(base) ==
  LET darkBaseScale == determineBaseScale(base, TRUE)
      lightBaseForGen == createVariedBaseColor(base, TRUE)
  IN  [light |-> generateLightRampWithExactBase(lightBaseForGen),
       dark  |-> enforceAroundBase(
                   Put(generateDarkRampWithExactBase(base), darkBaseScale, clone(base)),
                   base, darkBaseScale),
       lightBaseScale |-> determineBaseScale(lightBaseForGen, FALSE),
       darkBaseScale |-> darkBaseScale]

(* the generated pair and the base scales, light ramp default *)
GeneratedLightDefault(base) ==
  LET dark == generateDarkRampWithExactBase(base)
  IN  [light |-> generateLightRampWithExactBase(clone(base)),
       dark  |-> dark,
       lightBaseScale |-> determineBaseScale(clone(base), FALSE),
       darkBaseScale |-> closestScale(base, dark)]

(* the handler is entered with the colour typed, reads the ramp toggle and  *)
(* starts from fresh ramps                                                  *)
updateColorRamps(hex, toggle) ==
  /\ page \in {"hsl", "hslTyping"}
  /\ collection = <<>>
  /\ pc \in {"idle", "done"}
  /\ pc' = "started"
  /\ baseColor' = tinycolorHex(hex)
  /\ isDarkModeDefault' = toggle
  /\ currentLightRamp' = EmptyRamp
  /\ currentDarkRamp' = EmptyRamp
  /\ actualLightBaseScale' = 500
  /\ actualDarkBaseScale' = 500
  /\ currentSeenSet' = {}
  /\ duplicates' = <<>>
  /\ resolverInput' = NoPair
  /\ lightSwatches' = EmptyRamp
  /\ darkSwatches' = EmptyRamp
  /\ UNCHANGED << page, okVars, appVars >>

(* pure white and pure black bypass the pipeline and are rendered at once;  *)
(* every other colour gets its two generated ramps                          *)
GenerateRamps ==
  /\ pc = "started"
  /\ IF baseColor.rgb = WHITE_HEX \/ baseColor.rgb = BLACK_HEX
     THEN LET p == PureRamps(baseColor.rgb)
          IN  /\ currentLightRamp' = p.light
              /\ currentDarkRamp' = p.dark
              /\ actualLightBaseScale' = p.lightBaseScale
              /\ actualDarkBaseScale' = p.darkBaseScale
              /\ lightSwatches' = updateRampUI_hsl(p.light, p.lightBaseScale)
              /\ darkSwatches' = updateRampUI_hsl(p.dark, p.darkBaseScale)
              /\ pc' = "done"
     ELSE LET g == IF isDarkModeDefault THEN GeneratedDarkDefault(baseColor)
                   ELSE GeneratedLightDefault(baseColor)
          IN  /\ currentLightRamp' = g.light
              /\ currentDarkRamp' = g.dark
              /\ actualLightBaseScale' = g.lightBaseScale
              /\ actualDarkBaseScale' = g.darkBaseScale
              /\ pc' = "generated"
              /\ UNCHANGED << lightSwatches, darkSwatches >>
  /\ UNCHANGED << baseColor, isDarkModeDefault, currentSeenSet, duplicates, resolverInput >>
  /\ UNCHANGED << page, okVars, appVars, uiVars >>

ForceDarkModeDistinctness ==
  /\ pc = "generated"
  /\ currentDarkRamp' = forceDarkModeDistinctness(currentLightRamp, currentDarkRamp)
  /\ pc' = "distinct"
  /\ UNCHANGED << baseColor, isDarkModeDefault, currentLightRamp, actualLightBaseScale,
                  actualDarkBaseScale, currentSeenSet, duplicates, resolverInput,
                  lightSwatches, darkSwatches >>
  /\ UNCHANGED << page, okVars, appVars, uiVars >>

EnsureDarkMode950IsLightest ==
  /\ pc = "distinct"
  /\ currentDarkRamp' = adjustDarkRamp100Shade(ensureDarkMode950IsLightest(currentDarkRamp))
  /\ pc' = "adjusted"
  /\ UNCHANGED << baseColor, isDarkModeDefault, currentLightRamp, actualLightBaseScale,
                  actualDarkBaseScale, currentSeenSet, duplicates, resolverInput,
                  lightSwatches, darkSwatches >>
  /\ UNCHANGED << page, okVars, appVars, uiVars >>

(* guaranteeUniqueColors, steps 1 and 2: track all colours, find duplicates *)
GuaranteeUniqueColors ==
  /\ pc = "adjusted"
  /\ LET found == findDuplicates(allColors(currentLightRamp, currentDarkRamp), 1, {}, <<>>)
     IN  /\ currentSeenSet' = found.seen
         /\ duplicates' = found.duplicates
  /\ resolverInput' = [light |-> currentLightRamp, dark |-> currentDarkRamp]
  /\ pc' = "resolving"
  /\ UNCHANGED << baseColor, isDarkModeDefault, currentLightRamp, currentDarkRamp,
                  actualLightBaseScale, actualDarkBaseScale, lightSwatches, darkSwatches >>
  /\ UNCHANGED << page, okVars, appVars, uiVars >>

(* guaranteeUniqueColors, the body of duplicates.forEach for one duplicate *)
FixDuplicate(r1, r2, r3) ==
  /\ pc = "resolving"
  /\ duplicates # <<>>
  /\ LET info == Head(duplicates)
         newColor == resolveDuplicate(info, currentSeenSet, r1, r2, r3)
     IN  /\ IF info.rampType = "light"
            THEN /\ currentLightRamp' = Put(currentLightRamp, info.scale, newColor)
                 /\ UNCHANGED currentDarkRamp
            ELSE /\ currentDarkRamp' = Put(currentDarkRamp, info.scale, newColor)
                 /\ UNCHANGED currentLightRamp
         /\ currentSeenSet' = currentSeenSet \cup {newColor.rgb}
  /\ duplicates' = Tail(duplicates)
  /\ UNCHANGED << pc, baseColor, isDarkModeDefault, actualLightBaseScale,
                  actualDarkBaseScale, resolverInput, lightSwatches, darkSwatches >>
  /\ UNCHANGED << page, okVars, appVars, uiVars >>

(* guaranteeUniqueColors returns { lightRamp, darkRamp, seenSet } *)
ReturnUniqueColors ==
  /\ pc = "resolving"
  /\ duplicates = <<>>
  /\ pc' = "unique"
  /\ UNCHANGED << baseColor, isDarkModeDefault, currentLightRamp, currentDarkRamp,
                  actualLightBaseScale, actualDarkBaseScale, currentSeenSet, duplicates,
                  resolverInput, lightSwatches, darkSwatches >>
  /\ UNCHANGED << page, okVars, appVars, uiVars >>

EnsureLightRamp950(r1, r2, r3) ==
  /\ pc = "unique"
  /\ LET res == ensureLightRamp950ContrastAndUniqueness(currentLightRamp, currentSeenSet,
                                                        r1, r2, r3)
     IN  /\ currentLightRamp' = res.lightRamp
         /\ currentSeenSet' = res.seenSet
  /\ pc' = "terminal"
  /\ UNCHANGED << baseColor, isDarkModeDefault, currentDarkRamp, actualLightBaseScale,
                  actualDarkBaseScale, duplicates, resolverInput, lightSwatches,
                  darkSwatches >>
  /\ UNCHANGED << page, okVars, appVars, uiVars >>

(* the rest of the handler: the gray boost, the base colour put back at its *)
(* scale of the default ramp, the global lightening of the dark ramp, and   *)
(* both renderings                                                          *)
FinalLight ==
  IF ~isDarkModeDefault /\ actualLightBaseScale \in DOMAIN currentLightRamp
     /\ currentLightRamp[actualLightBaseScale].rgb # baseColor.rgb
  THEN Put(currentLightRamp, actualLightBaseScale, clone(baseColor))
  ELSE currentLightRamp

FinalDark ==
  LET boosted == IF baseColor.s < 100
                 THEN grayDarkerShadeBoost(currentDarkRamp, isDarkModeDefault,
                                           actualDarkBaseScale)
                 ELSE currentDarkRamp
      injected == IF isDarkModeDefault /\ actualDarkBaseScale \in DOMAIN boosted
                  THEN Put(boosted, actualDarkBaseScale, clone(baseColor))
                  ELSE boosted
  IN  globallyLightenDarkRamp(injected, isDarkModeDefault, actualDarkBaseScale, 100)

RenderRamps ==
  /\ pc = "terminal"
  /\ currentLightRamp' = FinalLight
  /\ currentDarkRamp' = FinalDark
  /\ lightSwatches' = updateRampUI_hsl(FinalLight, actualLightBaseScale)
  /\ darkSwatches' = updateRampUI_hsl(FinalDark, actualDarkBaseScale)
  /\ pc' = "done"
  /\ UNCHANGED << baseColor, isDarkModeDefault, actualLightBaseScale, actualDarkBaseScale,
                  currentSeenSet, duplicates, resolverInput >>
  /\ UNCHANGED << page, okVars, appVars, uiVars >>

(* the values the k-th Math.random() call of the pending fix can return; a  *)
(* call that is not made has no effect, its draw is fixed                   *)
DrawsOf(k) ==
  IF pc = "resolving" /\ duplicates # <<>>
     /\ randomCalls(Head(duplicates), currentSeenSet) >= k
  THEN RandomDraws ELSE {0}

-----------------------------------------------------------------------------
(* The OKLCH engine (color-ramp-oklch.js) on achromatic colours.  A colour  *)
(* of chroma 0 is its OKLCH lightness l in units of 1e-4; its three sRGB    *)
(* channels are equal, so its hex is one byte.                              *)

(* oklch.l of the gray #vvvvvv, v = 0..255: the cube root of its luminance *)
OklabLightnessTable ==
  <<0, 672, 847, 969, 1067, 1149, 1221, 1286, 1344, 1398, 1448, 1496,
     1543, 1591, 1638, 1684, 1730, 1776, 1822, 1867, 1913, 1957, 2002, 2046,
     2090, 2134, 2178, 2221, 2264, 2308, 2350, 2393, 2435, 2478, 2520, 2562,
     2603, 2645, 2686, 2727, 2768, 2809, 2850, 2891, 2931, 2972, 3012, 3052,
     3092, 3132, 3171, 3211, 3250, 3290, 3329, 3368, 3407, 3446, 3485, 3523,
     3562, 3600, 3639, 3677, 3715, 3753, 3791, 3829, 3867, 3904, 3942, 3979,
     4017, 4054, 4091, 4128, 4165, 4202, 4239, 4276, 4313, 4349, 4386, 4423,
     4459, 4495, 4532, 4568, 4604, 4640, 4676, 4712, 4748, 4784, 4819, 4855,
     4891, 4926, 4962, 4997, 5032, 5068, 5103, 5138, 5173, 5208, 5243, 5278,
     5313, 5348, 5382, 5417, 5452, 5486, 5521, 5555, 5590, 5624, 5658, 5693,
     5727, 5761, 5795, 5829, 5863, 5897, 5931, 5965, 5999, 6032, 6066, 6100,
     6133, 6167, 6201, 6234, 6268, 6301, 6334, 6368, 6401, 6434, 6467, 6500,
     6534, 6567, 6600, 6633, 6665, 6698, 6731, 6764, 6797, 6830, 6862, 6895,
     6927, 6960, 6993, 7025, 7058, 7090, 7122, 7155, 7187, 7219, 7252, 7284,
     7316, 7348, 7380, 7412, 7444, 7476, 7508, 7540, 7572, 7604, 7636, 7668,
     7699, 7731, 7763, 7794, 7826, 7858, 7889, 7921, 7952, 7984, 8015, 8047,
     8078, 8109, 8141, 8172, 8203, 8234, 8266, 8297, 8328, 8359, 8390, 8421,
     8452, 8483, 8514, 8545, 8576, 8607, 8638, 8669, 8699, 8730, 8761, 8792,
     8822, 8853, 8884, 8914, 8945, 8975, 9006, 9037, 9067, 9097, 9128, 9158,
     9189, 9219, 9249, 9280, 9310, 9340, 9370, 9401, 9431, 9461, 9491, 9521,
     9551, 9581, 9612, 9642, 9672, 9702, 9731, 9761, 9791, 9821, 9851, 9881,
     9911, 9940, 9970, 10000>>

(* the least lightness whose sRGB channel rounds to the byte v = 1..255 *)
SrgbByteThreshold ==
  <<534, 770, 913, 1021, 1110, 1187, 1255, 1316, 1372, 1424, 1472, 1520,
     1568, 1615, 1661, 1708, 1754, 1800, 1845, 1890, 1935, 1980, 2025, 2069,
     2113, 2157, 2200, 2243, 2287, 2329, 2372, 2415, 2457, 2499, 2541, 2583,
     2625, 2666, 2707, 2748, 2789, 2830, 2871, 2912, 2952, 2992, 3032, 3072,
     3112, 3152, 3192, 3231, 3271, 3310, 3349, 3388, 3427, 3466, 3504, 3543,
     3582, 3620, 3658, 3696, 3734, 3772, 3810, 3848, 3886, 3924, 3961, 3998,
     4036, 4073, 4110, 4147, 4184, 4221, 4258, 4295, 4332, 4368, 4405, 4441,
     4478, 4514, 4550, 4586, 4622, 4659, 4694, 4730, 4766, 4802, 4838, 4873,
     4909, 4944, 4980, 5015, 5050, 5086, 5121, 5156, 5191, 5226, 5261, 5296,
     5331, 5366, 5400, 5435, 5469, 5504, 5539, 5573, 5607, 5642, 5676, 5710,
     5744, 5779, 5813, 5847, 5881, 5915, 5948, 5982, 6016, 6050, 6084, 6117,
     6151, 6184, 6218, 6251, 6285, 6318, 6351, 6385, 6418, 6451, 6484, 6517,
     6551, 6584, 6617, 6650, 6682, 6715, 6748, 6781, 6814, 6846, 6879, 6912,
     6944, 6977, 7009, 7042, 7074, 7107, 7139, 7171, 7204, 7236, 7268, 7300,
     7333, 7365, 7397, 7429, 7461, 7493, 7525, 7557, 7589, 7620, 7652, 7684,
     7716, 7747, 7779, 7811, 7842, 7874, 7905, 7937, 7968, 8000, 8031, 8063,
     8094, 8125, 8157, 8188, 8219, 8251, 8282, 8313, 8344, 8375, 8406, 8437,
     8468, 8499, 8530, 8561, 8592, 8623, 8654, 8685, 8715, 8746, 8777, 8808,
     8838, 8869, 8900, 8930, 8961, 8991, 9022, 9052, 9083, 9113, 9144, 9174,
     9204, 9235, 9265, 9295, 9326, 9356, 9386, 9416, 9446, 9477, 9507, 9537,
     9567, 9597, 9627, 9657, 9687, 9717, 9747, 9777, 9807, 9837, 9866, 9896,
     9926, 9956, 9986>>

(* new Color(hexValue).to('oklch').l *)
oklchOf(byte) == OklabLightnessTable[byte + 1]

(* hex(color): color.toString({format: 'hex'}) *)
hex(l) == Cardinality({v \in 1..255 : l >= SrgbByteThreshold[v]})

(* the relative luminance of the gray of lightness l, l^3, in units of 1e-7 *)
luminance(l) ==
  LET l2 == l * l
  IN  (l2 \div 100000) * l + ((l2 % 100000) * l) \div 100000

(* the luminance of the text colour #0D0D0D, in units of 1e-7 *)
blackLuminance == 40247

whiteLuminance == luminance(10000)

(* wcagRatio(c1, c2): the WCAG 2.1 ratio cut to two decimals, in hundredths *)
wcagRatio(y1, y2) == (100 * (Max(y1, y2) + 500000)) \div (Min(y1, y2) + 500000)

(* the text colour and ratio ensureAccessible picks for a background *)
evaluated(l) ==
  LET ratioBlack == wcagRatio(luminance(l), blackLuminance)
      ratioWhite == wcagRatio(luminance(l), whiteLuminance)
  IN  [bg |-> l,
       text |-> IF ratioBlack >= ratioWhite THEN "black" ELSE "white",
       ratio |-> Max(ratioBlack, ratioWhite)]

(* the nudge loop of ensureAccessible: 10% of the way to targetL per turn *)
RECURSIVE nudgeLoop(_, _, _)
nudgeLoop(res, targetL, i) ==
  IF i < 20 /\ res.ratio < 450
  THEN nudgeLoop(evaluated(res.bg + (targetL - res.bg) \div 10), targetL, i + 1)
  ELSE res

ensureAccessible(bgRaw) ==
  LET first == evaluated(bgRaw)
  IN  IF first.ratio < 450
      THEN nudgeLoop(first, IF first.text = "black" THEN 10000 ELSE 0, 0)
      ELSE first

(* the point at num/den of the way from a to b *)
mix(a, b, num, den) ==
  IF b >= a THEN a + ((b - a) * num) \div den ELSE a - ((a - b) * num) \div den

(* c1.steps(c2, {steps: n}): n evenly spaced colours from c1 to c2, and the *)
(* midpoint alone when n = 1                                                *)
steps(c1, c2, n) ==
  IF n = 1 THEN << mix(c1, c2, 1, 2) >>
  ELSE [i \in 1..n |-> mix(c1, c2, i - 1, n - 1)]

(* the scale of the non-default ramp closest in lightness to the base *)
RECURSIVE closestKey(_, _, _, _, _)
closestKey(ramp, baseLightness, i, minDiff, anchorScale) ==
  IF i > Len(SCALES) THEN anchorScale
  ELSE LET diff == Abs(ramp[SCALES[i]] - baseLightness)
       IN  IF minDiff < 0 \/ diff < minDiff
           THEN closestKey(ramp, baseLightness, i + 1, diff, SCALES[i])
           ELSE closestKey(ramp, baseLightness, i + 1, minDiff, anchorScale)

(* generateRamp, anchored branch, for a base of chroma below 0.01.  The     *)
(* number of colours each call of steps() hands back is the library's: it   *)
(* is steps + more1 for the lighter and steps + more2 for the darker shades *)
(* (0 and 0 when the library returns what was asked for).  A scale assigned *)
(* undefined is a scale without a colour.                                   *)
generateAnchoredRamp(baseLightness, isLightRamp, more1, more2) ==
  LET L_start == IF isLightRamp THEN 9900 ELSE 1500
      L_end == IF isLightRamp THEN 1500 ELSE 9900
      lightnessRange == Abs(L_start - L_end)
      anchorIndex == Max(0, Min(Len(SCALES) - 1,
                       RoundDiv(Abs(baseLightness - L_start) * (Len(SCALES) - 1),
                                lightnessRange)))
      lighterShades == steps(L_start, baseLightness, anchorIndex + 1 + more1)
      darkerShades == steps(baseLightness, L_end, (Len(SCALES) - 1) - anchorIndex + 1 + more2)
      rampColors == SubSeq(lighterShades, 1, Len(lighterShades) - 1) \o darkerShades
      simpleRamp == steps(L_start, L_end, Len(SCALES))
      anchored == IF Len(rampColors) # Len(SCALES)
                  THEN [scale \in ScaleSet |-> simpleRamp[IndexOf(scale)]]
                  ELSE [scale \in ScaleSet |-> rampColors[IndexOf(scale)]]
  IN  [ramp |-> IF anchorIndex + 1 \in DOMAIN rampColors
                THEN [anchored EXCEPT ![SCALES[anchorIndex + 1]] = rampColors[anchorIndex + 1]]
                ELSE [scale \in ScaleSet \ {SCALES[anchorIndex + 1]} |-> anchored[scale]],
       anchorScale |-> [type |-> "number", value |-> SCALES[anchorIndex + 1]],
       rampColors |-> rampColors]

(* the single uniform ramp from start to end of generateRamp *)
simpleRampOf(isLightRamp) ==
  LET L_start == IF isLightRamp THEN 9900 ELSE 1500
      L_end == IF isLightRamp THEN 1500 ELSE 9900
      simpleRamp == steps(L_start, L_end, Len(SCALES))
  IN  [scale \in ScaleSet |-> simpleRamp[IndexOf(scale)]]

(* generateRamp(baseColor, isLightRamp, isDefaultRamp, vibrancyBoost) for a *)
(* base of chroma below 0.01: rampChroma is 0 and the boost is not read.    *)
(* anchorScale is a number (SCALES[anchorIndex]) in the anchored branch and *)
(* a string (a key of Object.keys(ramp)) in the other one.                  *)
generateRamp(baseLightness, isLightRamp, isDefaultRamp) ==
  LET simple == simpleRampOf(isLightRamp)
      anchored == generateAnchoredRamp(baseLightness, isLightRamp, 0, 0)
  IN  IF isDefaultRamp
      THEN [ramp |-> anchored.ramp, anchorScale |-> anchored.anchorScale]
      ELSE [ramp |-> simple,
            anchorScale |-> [type |-> "string",
                             value |-> closestKey(simple, baseLightness, 1, -1, 0)]]

(* updateRampUI(rampId, ramp, anchorScale): what one swatch shows *)
swatchOf_oklch(result, scale, anchorScale) ==
  [hex |-> hex(result.bg),
   text |-> result.text,
   ratio |-> result.ratio,
   base |-> scale = anchorScale.value,
   badge |-> IF result.ratio >= 700 THEN "AAA"
             ELSE IF result.ratio >= 450 THEN "AA" ELSE "Fail"]

updateRampUI_oklch(ramp, anchorScale) ==
  [scale \in DOMAIN ramp \cap ScaleSet |-> swatchOf_oklch(ramp[scale], scale, anchorScale)]

(* number of gray levels tried as base colour of the OKLCH page *)
GrayLevels == 12

(* #0b0b0b is the gray of the dark end of the non-default light ramp *)
NotableGrays == {11, 119, 252}

GrayColors == {(i * 255) \div GrayLevels : i \in 0..GrayLevels} \cup NotableGrays

(* arguments of processRamp called on its own: a ramp and the hexes in use *)
UsedHexes == {251, 252, 253}

ExistingHexSets == SUBSET UsedHexes

(* a ramp with the shades of some scales missing *)
Without(ramp, missing) == [scale \in DOMAIN ramp \ missing |-> ramp[scale]]

CallRamps ==
  { generateRamp(oklchOf(128), FALSE, FALSE).ramp,
    generateRamp(oklchOf(128), TRUE, FALSE).ramp,
    generateRamp(oklchOf(128), FALSE, TRUE).ramp,
    Without(generateRamp(oklchOf(128), FALSE, TRUE).ramp, {50, 400}),
    Without(generateRamp(oklchOf(128), FALSE, TRUE).ramp, ScaleSet) }

(* processRamp, the guard for a missing scale: the nearest defined shade,   *)
(* first towards 50, then towards 950; mid-gray #808080 when the ramp has   *)
(* no shade at all                                                          *)
backfilled(ramp, idx) ==
  LET before == {i \in 1..(idx - 1) : SCALES[i] \in DOMAIN ramp}
      after  == {i \in (idx + 1)..Len(SCALES) : SCALES[i] \in DOMAIN ramp}
  IN  IF SCALES[idx] \in DOMAIN ramp THEN ramp[SCALES[idx]]
      ELSE IF before # {} THEN ramp[SCALES[CHOOSE i \in before : \A j \in before : j <= i]]
      ELSE IF after # {} THEN ramp[SCALES[CHOOSE i \in after : \A j \in after : i <= j]]
      ELSE oklchOf(128)

NoAnchor == [type |-> "number", value |-> 500]

OkIdle ==
  /\ okPc = "idle"
  /\ color = 0
  /\ isDarkDefault = FALSE
  /\ lightRampRaw = EmptyRamp
  /\ darkRampRaw = EmptyRamp
  /\ lightAnchor = NoAnchor
  /\ darkAnchor = NoAnchor
  /\ rampId = "lightRamp"
  /\ scaleIndex = 1
  /\ processed = EmptyRamp
  /\ localHexes = {}
  /\ originalColor = 0
  /\ processedResult = evaluated(0)
  /\ processedLightRamp = EmptyRamp
  /\ processedDarkRamp = EmptyRamp
  /\ okLightSwatches = EmptyRamp
  /\ okDarkSwatches = EmptyRamp

(* processRamp(ramp, existingHexes) entered on its own *)
ProcessRampCalled ==
  /\ okPc = "forEach"
  /\ color = 0
  /\ isDarkDefault = FALSE
  /\ lightRampRaw = EmptyRamp
  /\ darkRampRaw \in CallRamps
  /\ lightAnchor = NoAnchor
  /\ darkAnchor = NoAnchor
  /\ rampId = "darkRamp"
  /\ scaleIndex = 1
  /\ processed = EmptyRamp
  /\ localHexes \in ExistingHexSets
  /\ originalColor = 0
  /\ processedResult = evaluated(0)
  /\ processedLightRamp = EmptyRamp
  /\ processedDarkRamp = EmptyRamp
  /\ okLightSwatches = EmptyRamp
  /\ okDarkSwatches = EmptyRamp

(* updateAll up to the first call of processRamp: both ramps generated *)
updateAll(gray, toggle) ==
  /\ page \in {"oklch", "oklchTyping"}
  /\ collection = <<>>
  /\ okPc \in {"idle", "done"}
  /\ LET light == generateRamp(oklchOf(gray), TRUE, ~toggle)
         dark == generateRamp(oklchOf(gray), FALSE, toggle)
     IN  /\ lightRampRaw' = light.ramp
         /\ lightAnchor' = light.anchorScale
         /\ darkRampRaw' = dark.ramp
         /\ darkAnchor' = dark.anchorScale
  /\ color' = gray
  /\ isDarkDefault' = toggle
  /\ rampId' = "lightRamp"
  /\ scaleIndex' = 1
  /\ processed' = EmptyRamp
  /\ localHexes' = {}
  /\ originalColor' = 0
  /\ processedResult' = evaluated(0)
  /\ processedLightRamp' = EmptyRamp
  /\ processedDarkRamp' = EmptyRamp
  /\ okLightSwatches' = EmptyRamp
  /\ okDarkSwatches' = EmptyRamp
  /\ okPc' = "forEach"
  /\ UNCHANGED << hslVars, appVars, page >>

(* processRamp, the head of SCALES.forEach: the shade is made accessible *)
ProcessScale ==
  /\ okPc = "forEach"
  /\ LET ramp == IF rampId \in {"lightRamp", "exportLight"} THEN lightRampRaw
                 ELSE darkRampRaw
     IN  /\ originalColor' = backfilled(ramp, scaleIndex)
         /\ processedResult' = ensureAccessible(backfilled(ramp, scaleIndex))
  /\ okPc' = "while"
  /\ UNCHANGED << hslVars, appVars, uiVars, page, color, isDarkDefault, lightRampRaw, darkRampRaw, lightAnchor,
                  darkAnchor, rampId, scaleIndex, processed, localHexes,
                  processedLightRamp, processedDarkRamp, okLightSwatches, okDarkSwatches >>

(* processRamp: the while test finds the hex in localHexes *)
HexInUse ==
  /\ okPc = "while"
  /\ hex(processedResult.bg) \in localHexes
  /\ okPc' = "nudge"
  /\ UNCHANGED << hslVars, appVars, uiVars, page, color, isDarkDefault, lightRampRaw, darkRampRaw, lightAnchor,
                  darkAnchor, rampId, scaleIndex, processed, localHexes, originalColor,
                  processedResult, processedLightRamp, processedDarkRamp,
                  okLightSwatches, okDarkSwatches >>

(* processRamp: the body of the while loop *)
NudgeOriginal ==
  /\ okPc = "nudge"
  /\ originalColor' = Min(9950, originalColor + 50)
  /\ processedResult' = ensureAccessible(Min(9950, originalColor + 50))
  /\ okPc' = "while"
  /\ UNCHANGED << hslVars, appVars, uiVars, page, color, isDarkDefault, lightRampRaw, darkRampRaw, lightAnchor,
                  darkAnchor, rampId, scaleIndex, processed, localHexes,
                  processedLightRamp, processedDarkRamp, okLightSwatches, okDarkSwatches >>

(* processRamp: the shade is stored; after the last shade the ramp is       *)
(* returned, and the caller (updateAll or the export) goes on with the dark *)
(* ramp and lightHexes                                                      *)
StoreProcessed ==
  /\ okPc = "while"
  /\ hex(processedResult.bg) \notin localHexes
  /\ localHexes' = localHexes \cup {hex(processedResult.bg)}
  /\ LET stored == Put(processed, SCALES[scaleIndex], processedResult)
     IN  IF scaleIndex < Len(SCALES)
         THEN /\ processed' = stored
              /\ scaleIndex' = scaleIndex + 1
              /\ okPc' = "forEach"
              /\ UNCHANGED << rampId, processedLightRamp, processedDarkRamp >>
         ELSE IF rampId \in {"lightRamp", "exportLight"}
         THEN /\ processedLightRamp' = stored
              /\ processed' = EmptyRamp
              /\ scaleIndex' = 1
              /\ rampId' = IF rampId = "lightRamp" THEN "darkRamp" ELSE "exportDark"
              /\ okPc' = "forEach"
              /\ UNCHANGED processedDarkRamp
         ELSE /\ processedDarkRamp' = stored
              /\ processed' = stored
              /\ okPc' = IF rampId = "exportDark" THEN "exported" ELSE "processed"
              /\ UNCHANGED << rampId, scaleIndex, processedLightRamp >>
  /\ UNCHANGED << hslVars, appVars, uiVars, page, color, isDarkDefault, lightRampRaw, darkRampRaw, lightAnchor,
                  darkAnchor, originalColor, processedResult, okLightSwatches,
                  okDarkSwatches >>

(* updateAll: both ramps are rendered *)
RenderProcessed ==
  /\ page \in {"oklch", "oklchTyping"}
  /\ okPc = "processed"
  /\ okLightSwatches' = updateRampUI_oklch(processedLightRamp, lightAnchor)
  /\ okDarkSwatches' = updateRampUI_oklch(processedDarkRamp, darkAnchor)
  /\ okPc' = "done"
  /\ UNCHANGED << hslVars, appVars, uiVars, page, color, isDarkDefault, lightRampRaw, darkRampRaw, lightAnchor,
                  darkAnchor, rampId, scaleIndex, processed, localHexes, originalColor,
                  processedResult, processedLightRamp, processedDarkRamp >>

-----------------------------------------------------------------------------
(* Collections and the themed export.  The session is followed up to the    *)
(* first colour it stores in its collection: no new ramp is generated once  *)
(* a colour is stored.                                                      *)

(* HSL page, addColorToSpecificCollection: the base hex, the mode and the   *)
(* current ramps, serialised to hex strings, are pushed                     *)
addColorToSpecificCollection ==
  /\ page = "hsl"
  /\ pc = "done"
  /\ collection = <<>>
  /\ collection' = Append(collection,
       [base |-> baseColor.rgb,
        defaultMode |-> IF isDarkModeDefault THEN "dark" ELSE "light",
        lightRamp |-> [scale \in DOMAIN currentLightRamp |-> toHexString(currentLightRamp[scale])],
        darkRamp |-> [scale \in DOMAIN currentDarkRamp |-> toHexString(currentDarkRamp[scale])]])
  /\ UNCHANGED << page, hslVars, okVars, exportJson, uiVars >>

(* OKLCH page, the add-colour handler: base hex, vibrancy and mode are      *)
(* pushed, no ramp is stored                                                *)
addColor_oklch ==
  /\ page = "oklch"
  /\ okPc = "done"
  /\ collection = <<>>
  /\ collection' = Append(collection,
       [base |-> color, defaultMode |-> IF isDarkDefault THEN "dark" ELSE "light"])
  /\ UNCHANGED << page, hslVars, okVars, exportJson, uiVars >>

(* getBaseScaleForRamp(ramp, baseHex): the first scale holding the base hex, *)
(* '' (no scale, here 0) when there is none                                  *)
RECURSIVE getBaseScaleForRamp(_, _, _)
getBaseScaleForRamp(ramp, baseHex, i) ==
  IF i > Len(SCALES) THEN 0
  ELSE IF SCALES[i] \in DOMAIN ramp /\ ramp[SCALES[i]] = baseHex THEN SCALES[i]
  ELSE getBaseScaleForRamp(ramp, baseHex, i + 1)

(* HSL buildScaleBlock(ramp, baseScale): SCALES and baseScale are strings *)
buildScaleBlock_hsl(ramp, baseScale) ==
  [scale \in ScaleSet |-> [star |-> scale = baseScale, value |-> ramp[scale]]]

(* OKLCH buildScaleBlock(ramp, baseScale): the key gets its star under      *)
(* scale === baseScale, with scale a number of SCALES                       *)
buildScaleBlock_oklch(ramp, baseScale) ==
  [scale \in ScaleSet |->
     [star |-> baseScale.type = "number" /\ scale = baseScale.value,
      value |-> hex(ramp[scale].bg)]]

(* the keys of a block built line by line: SCALES.forEach pushes one line   *)
(* per scale, the key of the base scale with its star                       *)
blockKeys_starLast(block) ==
  LET plain == SelectSeq(SCALES, LAMBDA scale : ~block[scale].star)
      starred == SelectSeq(SCALES, LAMBDA scale : block[scale].star)
  IN  [i \in 1..Len(plain) |-> [scale |-> plain[i], star |-> FALSE]]
        \o [i \in 1..Len(starred) |-> [scale |-> starred[i], star |-> TRUE]]

blockKeys(block) ==
  [i \in 1..Len(SCALES) |-> [scale |-> SCALES[i], star |-> block[SCALES[i]].star]]

RECURSIVE Ascending(_)
Ascending(numbers) ==
  IF numbers = {} THEN <<>>
  ELSE LET least == CHOOSE n \in numbers : \A m \in numbers : n <= m
       IN  <<least>> \o Ascending(numbers \ {least})

(* the keys of an object as JSON.stringify writes them: the keys that are   *)
(* integers in ascending order, then the other keys as they were inserted   *)
JsonKeys(inserted) ==
  LET integers == {inserted[i].scale : i \in {j \in DOMAIN inserted : ~inserted[j].star}}
      order == Ascending(integers)
  IN  [i \in 1..Len(order) |-> [scale |-> order[i], star |-> FALSE]]
        \o SelectSeq(inserted, LAMBDA key : key.star)

(* generateJsonForFigma(collection, 'figma-paired'): the object of one      *)
(* colour gets the key scale for every scale of SCALES, none with a star    *)
pairedKeys == JsonKeys([i \in 1..Len(SCALES) |-> [scale |-> SCALES[i], star |-> FALSE]])

(* HSL page, generateJsonStringForFigma(collection, 'figma-themed'): one   *)
(* block of keys per colour under "Light" and under "Dark", from the ramps  *)
(* stored with the colour                                                   *)
generateJsonStringForFigma_hsl ==
  /\ page = "hsl"
  /\ collection # <<>>
  /\ exportJson = NoExport
  /\ exportJson' =
       [Light |-> [i \in 1..Len(collection) |->
                     buildScaleBlock_hsl(collection[i].lightRamp,
                       getBaseScaleForRamp(collection[i].lightRamp, collection[i].base, 1))],
        Dark  |-> [i \in 1..Len(collection) |->
                     buildScaleBlock_hsl(collection[i].darkRamp,
                       getBaseScaleForRamp(collection[i].darkRamp, collection[i].base, 1))],
        format |-> "themed",
        keys  |-> [i \in 1..Len(collection) |->
                     blockKeys(buildScaleBlock_hsl(collection[i].lightRamp,
                       getBaseScaleForRamp(collection[i].lightRamp, collection[i].base, 1)))]
                  \o [i \in 1..Len(collection) |->
                     blockKeys(buildScaleBlock_hsl(collection[i].darkRamp,
                       getBaseScaleForRamp(collection[i].darkRamp, collection[i].base, 1)))]]
  /\ UNCHANGED << page, hslVars, okVars, collection, uiVars >>

(* HSL page, generateJsonStringForFigma(collection, 'figma-paired'): the    *)
(* object of generateJsonForFigma is written by JSON.stringify              *)
generateJsonForFigma_hsl ==
  /\ page = "hsl"
  /\ collection # <<>>
  /\ exportJson = NoExport
  /\ exportJson' = [Light |-> <<>>, Dark |-> <<>>, format |-> "paired",
                    keys |-> [i \in 1..Len(collection) |-> pairedKeys]]
  /\ UNCHANGED << page, hslVars, okVars, collection, uiVars >>

(* OKLCH page, generateJsonStringForFigma(collection, 'figma-themed'):      *)
(* processColor generates the ramps of the stored colour again and enters   *)
(* processRamp                                                              *)
generateJsonStringForFigma_oklch ==
  /\ page = "oklch"
  /\ okPc = "done"
  /\ collection # <<>>
  /\ exportJson = NoExport
  /\ LET entry == collection[1]
         light == generateRamp(oklchOf(entry.base), TRUE, entry.defaultMode = "light")
         dark == generateRamp(oklchOf(entry.base), FALSE, entry.defaultMode = "dark")
     IN  /\ lightRampRaw' = light.ramp
         /\ lightAnchor' = light.anchorScale
         /\ darkRampRaw' = dark.ramp
         /\ darkAnchor' = dark.anchorScale
  /\ rampId' = "exportLight"
  /\ scaleIndex' = 1
  /\ processed' = EmptyRamp
  /\ localHexes' = {}
  /\ processedLightRamp' = EmptyRamp
  /\ processedDarkRamp' = EmptyRamp
  /\ okPc' = "forEach"
  /\ UNCHANGED << hslVars, appVars, uiVars, page, color, isDarkDefault, originalColor,
                  processedResult, okLightSwatches, okDarkSwatches >>

(* OKLCH page, the export once processColor has returned: the blocks of the *)
(* two themes are built                                                     *)
buildThemedExport ==
  /\ page = "oklch"
  /\ okPc = "exported"
  /\ exportJson' =
       [Light |-> << buildScaleBlock_oklch(processedLightRamp, lightAnchor) >>,
        Dark  |-> << buildScaleBlock_oklch(processedDarkRamp, darkAnchor) >>,
        format |-> "themed",
        keys  |-> << blockKeys(buildScaleBlock_oklch(processedLightRamp, lightAnchor)),
                     blockKeys(buildScaleBlock_oklch(processedDarkRamp, darkAnchor)) >>]
  /\ okPc' = "done"
  /\ UNCHANGED << page, hslVars, uiVars, collection, color, isDarkDefault, lightRampRaw,
                  darkRampRaw, lightAnchor, darkAnchor, rampId, scaleIndex, processed,
                  localHexes, originalColor, processedResult, processedLightRamp,
                  processedDarkRamp, okLightSwatches, okDarkSwatches >>

(* OKLCH page, the export in the format 'figma-paired' once processColor   *)
(* has returned: the object of generateJsonForFigma, written by             *)
(* JSON.stringify                                                           *)
buildPairedExport ==
  /\ page = "oklch"
  /\ okPc = "exported"
  /\ exportJson' = [Light |-> <<>>, Dark |-> <<>>, format |-> "paired",
                    keys |-> << pairedKeys >>]
  /\ okPc' = "done"
  /\ UNCHANGED << page, hslVars, uiVars, collection, color, isDarkDefault, lightRampRaw,
                  darkRampRaw, lightAnchor, darkAnchor, rampId, scaleIndex, processed,
                  localHexes, originalColor, processedResult, processedLightRamp,
                  processedDarkRamp, okLightSwatches, okDarkSwatches >>

-----------------------------------------------------------------------------

-----------------------------------------------------------------------------
(* The listeners of the colour field *)

(* what is typed on the HSL page: every base colour as "#rrggbb", other     *)
(* spellings of some of them, and strings that are no colour                *)
ColorInputs_hsl ==
  {Typed("hex", c) : c \in BaseColors}
    \cup { Typed("empty", <<>>), Typed("digits", <<0, 0, 0>>), Typed("digits", <<0>>),
           Typed("spaced", <<120, 120, 120>>), Typed("commas", <<0, 300>>),
           Typed("other", <<>>), Typed("spaced", <<1, 2, 3, 4>>),
           Typed("commas", <<132, NaN>>), Typed("spaced", <<12, NaN, 7>>) }

(* what is typed on the OKLCH page: the grays, other spellings of some of   *)
(* them, and strings new Color(...) throws on                               *)
ColorInputs_oklch ==
  {Typed("hex", <<g, g, g>>) : g \in GrayColors}
    \cup { Typed("empty", <<>>), Typed("digits", <<7, 7, 7>>),
           Typed("spaced", <<252, 252, 252>>),
           Typed("other", <<>>), Typed("digits", <<1, 2, 3, 4>>),
           Typed("spaced", <<1, 2, 3, 4>>), Typed("commas", <<11, NaN, 11>>) }

(* HSL page, the 'input' listener of #colorInput: the empty field stands    *)
(* for black, everything else goes through parseRgbInput; only a valid      *)
(* colour reaches updateColorRamps                                          *)
colorInputListener_hsl(input, toggle) ==
  /\ page = "hsl"
  /\ collection = <<>>
  /\ pc \in {"idle", "done"}
  /\ colorInputValue' = input
  /\ UNCHANGED << inputError, modalVars, timerVars, storeVars >>
  /\ LET processedColorString == IF input.form = "empty" THEN Parsed(BLACK_HEX)
                                 ELSE parseRgbInput_hsl(input)
     IN  IF isValidColor(processedColorString)
         THEN updateColorRamps(processedColorString.rgb, toggle)
         ELSE UNCHANGED << page, hslVars, okVars, appVars >>

(* OKLCH page, updateAll from the field to the catch of new Color(...): a   *)
(* string that is no colour marks the field and returns                     *)
colorInputListener_oklch(input, toggle) ==
  /\ page = "oklch"
  /\ collection = <<>>
  /\ okPc \in {"idle", "done"}
  /\ colorInputValue' = input
  /\ UNCHANGED << modalVars, timerVars, storeVars >>
  /\ LET parsed == readColorValue(input)
     IN  IF parsed.ok
         THEN /\ inputError' = FALSE
              /\ updateAll(parsed.rgb[1], toggle)
         ELSE /\ inputError' = TRUE
              /\ UNCHANGED << page, hslVars, okVars, appVars >>

-----------------------------------------------------------------------------
(* Modals.  A modal is open when it carries the class 'active'.  A control  *)
(* of the page is used while no modal is open, a control of a modal while   *)
(* that modal is the one opened last; the links to the Figma example are in *)
(* the export modal.  The Escape key can be pressed at any time.            *)

(* the modals opened through an entry of modalStack on both pages *)
StackedModals == {"export", "import", "newCollection", "deleteColor", "deleteCollection"}

(* longest modalStack followed *)
MaxStack == 4

Top(seq) == seq[Len(seq)]

Pop(seq) == SubSeq(seq, 1, Len(seq) - 1)

(* modal.classList.remove('active') *)
hidden_all(open, modal) == <<>>

hidden(open, modal) == SelectSeq(open, LAMBDA m : m # modal)

canOpenFromPage == openModals = <<>> /\ Len(modalStack) < MaxStack

canOpenFromExport ==
  /\ openModals # <<>>
  /\ Top(openModals) = "export"
  /\ Len(modalStack) < MaxStack

(* HSL page, openHelpModal: the help modal has no entry in modalStack *)
openHelpModal ==
  /\ page = "hslModals"
  /\ canOpenFromPage
  /\ openModals' = Append(openModals, "help")
  /\ lastModalEvent' = "open"
  /\ UNCHANGED << page, hslVars, okVars, appVars, colorInputValue, inputError, modalStack, timerVars, storeVars >>

(* HSL page, closeHelpModal from its close button or its backdrop *)
closeHelpModal ==
  /\ page = "hslModals"
  /\ openModals # <<>>
  /\ Top(openModals) = "help"
  /\ openModals' = hidden(openModals, "help")
  /\ lastModalEvent' = "close"
  /\ UNCHANGED << page, hslVars, okVars, appVars, colorInputValue, inputError, modalStack, timerVars, storeVars >>

(* HSL page: setupModal's openModal (import), openExportModal and           *)
(* openProgrammaticModal push an entry and show the modal                   *)
openModal_hsl(modal) ==
  /\ page = "hslModals"
  /\ canOpenFromPage
  /\ modalStack' = Append(modalStack, modal)
  /\ openModals' = Append(openModals, modal)
  /\ lastModalEvent' = "open"
  /\ UNCHANGED << page, hslVars, okVars, appVars, colorInputValue, inputError, timerVars, storeVars >>

(* HSL page, openFigmaExampleModal *)
openFigmaExampleModal_hsl ==
  /\ page = "hslModals"
  /\ canOpenFromExport
  /\ modalStack' = Append(modalStack, "figmaExample")
  /\ openModals' = Append(openModals, "figmaExample")
  /\ lastModalEvent' = "open"
  /\ UNCHANGED << page, hslVars, okVars, appVars, colorInputValue, inputError, timerVars, storeVars >>

(* HSL page, the closeFn of every entry: only the modal on top of the stack *)
(* is popped and hidden                                                      *)
closeFn_hsl(stack, open, modal) ==
  IF stack # <<>> /\ Top(stack) = modal
  THEN [stack |-> Pop(stack), open |-> hidden(open, modal)]
  ELSE [stack |-> stack, open |-> open]

(* HSL page, the close button, the backdrop or the cancel button of the     *)
(* modal opened last                                                        *)
closeModal_hsl(modal) ==
  /\ page = "hslModals"
  /\ openModals # <<>>
  /\ Top(openModals) = modal
  /\ LET closed == closeFn_hsl(modalStack, openModals, modal)
     IN  /\ modalStack' = closed.stack
         /\ openModals' = closed.open
  /\ lastModalEvent' = "close"
  /\ UNCHANGED << page, hslVars, okVars, appVars, colorInputValue, inputError, timerVars, storeVars >>

(* HSL page, importCollections ends with closeImportModal(), which hides    *)
(* the import modal and leaves modalStack alone                             *)
closeImportModal_hsl ==
  /\ page = "hslModals"
  /\ openModals # <<>>
  /\ Top(openModals) = "import"
  /\ openModals' = hidden(openModals, "import")
  /\ lastModalEvent' = "imported"
  /\ UNCHANGED << page, hslVars, okVars, appVars, colorInputValue, inputError, modalStack, timerVars, storeVars >>

(* HSL page, the Escape key: handleEscapeKey calls the closeFn of the top   *)
(* entry, then the two listeners of the help modal close it when it is open *)
handleEscapeKey_hsl ==
  /\ page = "hslModals"
  /\ modalStack # <<>> \/ openModals # <<>>
  /\ LET closed == IF modalStack # <<>>
                   THEN closeFn_hsl(modalStack, openModals, Top(modalStack))
                   ELSE [stack |-> modalStack, open |-> openModals]
     IN  /\ modalStack' = closed.stack
         /\ openModals' = hidden(closed.open, "help")
  /\ lastModalEvent' = "Escape"
  /\ UNCHANGED << page, hslVars, okVars, appVars, colorInputValue, inputError, timerVars, storeVars >>

(* OKLCH page: setupModal's openModal (help), openExportModalWithCollection *)
(* and openProgrammaticModal push an entry and show the modal               *)
openModal_oklch(modal) ==
  /\ page = "oklchModals"
  /\ canOpenFromPage
  /\ modalStack' = Append(modalStack, modal)
  /\ openModals' = Append(openModals, modal)
  /\ lastModalEvent' = "open"
  /\ UNCHANGED << page, hslVars, okVars, appVars, colorInputValue, inputError, timerVars, storeVars >>

(* OKLCH page, openFigmaExampleModal *)
openFigmaExampleModal_oklch ==
  /\ page = "oklchModals"
  /\ canOpenFromExport
  /\ modalStack' = Append(modalStack, "figmaExample")
  /\ openModals' = Append(openModals, "figmaExample")
  /\ lastModalEvent' = "open"
  /\ UNCHANGED << page, hslVars, okVars, appVars, colorInputValue, inputError, timerVars, storeVars >>

(* OKLCH page, what the closeFn of an entry returns: true when the modal    *)
(* was open; the closeHandler of the export modal calls closeExportModal()  *)
(* and returns nothing                                                      *)
wasClosed(open, modal) ==
  /\ modal # "export"
  /\ \E i \in DOMAIN open : open[i] = modal

(* OKLCH page, closeTopModal: the closeFn of the top entry hides its modal, *)
(* the entry is popped only if the closeFn returned true                    *)
closeTopModal_oklch(stack, open) ==
  IF stack = <<>> THEN [stack |-> stack, open |-> open]
  ELSE [stack |-> IF wasClosed(open, Top(stack)) THEN Pop(stack) ELSE stack,
        open  |-> hidden(open, Top(stack))]

(* OKLCH page, the close button, the backdrop or the cancel button of the   *)
(* modal opened last: closeModalFromUi, closeIfTop and closeImportModal     *)
(* act only if the modal is the top entry, the export and the Figma example *)
(* modals call closeTopModal()                                              *)
closeModal_oklch(modal) ==
  /\ page = "oklchModals"
  /\ openModals # <<>>
  /\ Top(openModals) = modal
  /\ LET closed == IF modal \in {"export", "figmaExample"} \/ Top(modalStack) = modal
                   THEN closeTopModal_oklch(modalStack, openModals)
                   ELSE [stack |-> modalStack, open |-> openModals]
     IN  /\ modalStack' = closed.stack
         /\ openModals' = closed.open
  /\ lastModalEvent' = "close"
  /\ UNCHANGED << page, hslVars, okVars, appVars, colorInputValue, inputError, timerVars, storeVars >>

(* OKLCH page, the Escape key: handleEscapeKey *)
handleEscapeKey_oklch ==
  /\ page = "oklchModals"
  /\ modalStack # <<>>
  /\ LET closed == closeTopModal_oklch(modalStack, openModals)
     IN  /\ modalStack' = closed.stack
         /\ openModals' = closed.open
  /\ lastModalEvent' = "Escape"
  /\ UNCHANGED << page, hslVars, okVars, appVars, colorInputValue, inputError, timerVars, storeVars >>

-----------------------------------------------------------------------------
(* Typing in the colour field, with the time between the 'input' events.    *)
(* Time advances in steps of 100 ms while no handler is running.            *)

(* debounce(..., 300): the wait, in steps of 100 ms *)
DebounceTicks == 3

(* number of 'input' events followed *)
MaxInputEvents == 3

TypedColors_hsl == {Typed("hex", <<59, 130, 246>>), Typed("hex", <<0, 204, 0>>)}

TypedColors_oklch == {Typed("hex", <<128, 128, 128>>), Typed("hex", <<252, 252, 252>>)}

(* an event that comes 300 ms or more after the one before begins a burst *)
beginsBurst == inputEvents = 0 \/ sinceInput >= DebounceTicks

(* HSL page, the function debounce() returns, called for an 'input' event:  *)
(* the pending timer is cleared and a new one is set                        *)
debounced_hsl(input) ==
  /\ page = "hslTyping"
  /\ pc \in {"idle", "done"}
  /\ inputEvents < MaxInputEvents
  /\ colorInputValue' = input
  /\ timeout' = DebounceTicks
  /\ sinceInput' = 0
  /\ inputEvents' = inputEvents + 1
  /\ pipelineRuns' = IF beginsBurst THEN 0 ELSE pipelineRuns
  /\ UNCHANGED << inputError, modalVars, storeVars >>
  /\ UNCHANGED << page, hslVars, okVars, appVars >>

(* HSL page, 100 ms pass; a timer that is due calls the listener, which     *)
(* reads the field                                                          *)
timePasses_hsl ==
  /\ page = "hslTyping"
  /\ pc \in {"idle", "done"}
  /\ inputEvents > 0
  /\ sinceInput <= DebounceTicks
  /\ sinceInput' = sinceInput + 1
  /\ UNCHANGED << colorInputValue, inputError, modalVars, inputEvents, storeVars >>
  /\ IF timeout = 1
     THEN /\ timeout' = 0
          /\ LET processedColorString ==
                   IF colorInputValue.form = "empty" THEN Parsed(BLACK_HEX)
                   ELSE parseRgbInput_hsl(colorInputValue)
             IN  IF isValidColor(processedColorString)
                 THEN /\ updateColorRamps(processedColorString.rgb, isDarkModeDefault)
                      /\ pipelineRuns' = pipelineRuns + 1
                 ELSE UNCHANGED << page, hslVars, okVars, appVars, pipelineRuns >>
     ELSE /\ timeout' = IF timeout > 0 THEN timeout - 1 ELSE 0
          /\ UNCHANGED << page, hslVars, okVars, appVars, pipelineRuns >>

(* OKLCH page, an 'input' event: the listener is updateAll itself *)
inputEvent_oklch(input) ==
  /\ page = "oklchTyping"
  /\ okPc \in {"idle", "done"}
  /\ inputEvents < MaxInputEvents
  /\ colorInputValue' = input
  /\ sinceInput' = 0
  /\ inputEvents' = inputEvents + 1
  /\ UNCHANGED << modalVars, timeout, storeVars >>
  /\ LET parsed == readColorValue(input)
     IN  IF parsed.ok
         THEN /\ inputError' = FALSE
              /\ updateAll(parsed.rgb[1], isDarkDefault)
              /\ pipelineRuns' = (IF beginsBurst THEN 0 ELSE pipelineRuns) + 1
         ELSE /\ inputError' = TRUE
              /\ pipelineRuns' = IF beginsBurst THEN 0 ELSE pipelineRuns
              /\ UNCHANGED << page, hslVars, okVars, appVars >>

(* OKLCH page, 100 ms pass: no timer is ever set *)
timePasses_oklch ==
  /\ page = "oklchTyping"
  /\ okPc \in {"idle", "done"}
  /\ inputEvents > 0
  /\ sinceInput <= DebounceTicks
  /\ sinceInput' = sinceInput + 1
  /\ UNCHANGED << colorInputValue, inputError, modalVars, timeout, inputEvents, pipelineRuns, storeVars >>
  /\ UNCHANGED << page, hslVars, okVars, appVars >>

-----------------------------------------------------------------------------
(* Stored collections (features.js, createMoveColorItemHandler).  A stored  *)
(* colour is its id; id 0 stands for null.                                  *)

DraggedCollections ==
  << [id |-> 1, name |-> "Brand", colors |-> <<1, 2>>],
     [id |-> 2, name |-> "Other", colors |-> <<3>>] >>

(* ids a caller can pass: those stored, and one that is stored nowhere *)
ColorIds == 0..4

CollectionIds == 1..3

Positions == {"before", "after", "beginning", "end"}

(* array.findIndex(c => c.id === id), from 1; 0 when there is none *)
findIndex(seq, id) ==
  IF \E i \in DOMAIN seq : seq[i] = id
  THEN CHOOSE i \in DOMAIN seq : seq[i] = id /\ \A j \in 1..(i - 1) : seq[j] # id
  ELSE 0

(* array.splice(index, 1) and array.splice(index, 0, item), index from 1 *)
spliceOut(seq, index) == SubSeq(seq, 1, index - 1) \o SubSeq(seq, index + 1, Len(seq))

spliceIn(seq, index, item) ==
  SubSeq(seq, 1, index - 1) \o <<item>> \o SubSeq(seq, index, Len(seq))

(* the colours of the target collection after the insertion of movedColor;  *)
(* the two branches of the handler differ when the target id is not found   *)
inserted(colors, movedColor, targetColorId, position, sameCollection) ==
  IF position = "end" THEN Append(colors, movedColor)
  ELSE IF position = "beginning" THEN <<movedColor>> \o colors
  ELSE IF targetColorId # 0
  THEN LET targetIndex == findIndex(colors, targetColorId)
       IN  IF targetIndex # 0
           THEN (IF position = "after" THEN spliceIn(colors, targetIndex + 1, movedColor)
                 ELSE spliceIn(colors, targetIndex, movedColor))
           ELSE IF sameCollection THEN colors ELSE Append(colors, movedColor)
  ELSE colors

collectionIndex(id) ==
  IF \E i \in DOMAIN collections : collections[i].id = id
  THEN CHOOSE i \in DOMAIN collections : collections[i].id = id
  ELSE 0

moveColorItemHandler(colorId, fromCollectionId, toCollectionId, targetColorId, position) ==
  /\ page = "dragAndDrop"
  /\ LET from == collectionIndex(fromCollectionId)
         to == collectionIndex(toCollectionId)
     IN  IF from = 0 \/ to = 0 THEN UNCHANGED collections
         ELSE LET colorIndex == findIndex(collections[from].colors, colorId)
              IN  IF colorIndex = 0 THEN UNCHANGED collections
                  ELSE LET removed == [collections EXCEPT
                                         ![from].colors = spliceOut(@, colorIndex)]
                       IN  collections' =
                             [removed EXCEPT
                                ![to].colors = inserted(@, colorId, targetColorId, position,
                                                        fromCollectionId = toCollectionId)]
  /\ UNCHANGED << alerted, jsonText, vibrancySelect >>
  /\ UNCHANGED << page, hslVars, okVars, appVars, colorInputValue, inputError, modalVars,
                  timerVars >>

-----------------------------------------------------------------------------
(* importCollections (both pages).  A name is a sequence of characters, the *)
(* name of a collection that has none is NoName; an imported collection is  *)
(* [name, colors], colors being the number of its colours.                  *)

Chars == {"a", "A"}

lowerChar(c) == IF c = "A" THEN "a" ELSE c

(* String.prototype.toLowerCase *)
toLowerCase(name) == [i \in DOMAIN name |-> lowerChar(name[i])]

NoName == <<>>

MaxNameLen == 2

Names == UNION {[1..n -> Chars] : n \in 1..MaxNameLen}

MaxCollections == 3

MaxImported == 2

ImportedCollection == [name : Names \cup {NoName}, colors : 0..1]

ImportedData == UNION {[1..n -> ImportedCollection] : n \in 0..MaxImported}

StoredCollections == << [id |-> 1, name |-> <<"A", "a">>, colors |-> <<2>>] >>

(* existingNames = new Map(collections.map(c => [c.name.toLowerCase(), c.id])) *)
existingNamesOf(stored) == {toLowerCase(stored[i].name) : i \in DOMAIN stored}

(* first pass: some imported name is a key of existingNames; the pass breaks *)
(* at the first one, and collection.name.toLowerCase() throws at a          *)
(* collection without a name that comes before it                           *)
duplicateFound_exactCase(importedCollections, stored) ==
  \E i \in DOMAIN importedCollections :
     /\ importedCollections[i].name \in {stored[j].name : j \in DOMAIN stored}
     /\ \A j \in 1..(i - 1) : importedCollections[j].name # NoName

duplicateFound(importedCollections, stored) ==
  \E i \in DOMAIN importedCollections :
     /\ toLowerCase(importedCollections[i].name) \in existingNamesOf(stored)
     /\ \A j \in 1..(i - 1) : importedCollections[j].name # NoName

duplicateCollectionName(importedCollections, stored) ==
  LET clashing == {i \in DOMAIN importedCollections :
                     toLowerCase(importedCollections[i].name) \in existingNamesOf(stored)}
  IN  importedCollections[CHOOSE i \in clashing : \A j \in clashing : i <= j].name

firstPassThrows(importedCollections, stored) ==
  /\ ~duplicateFound(importedCollections, stored)
  /\ \E i \in DOMAIN importedCollections : importedCollections[i].name = NoName

(* generateId(): an id that no stored collection and no stored colour has *)
RECURSIVE idsIn(_)
idsIn(stored) ==
  IF stored = <<>> THEN {0}
  ELSE {Head(stored).id} \cup {Head(stored).colors[i] : i \in DOMAIN Head(stored).colors}
         \cup idsIn(Tail(stored))

generateId(stored) == 1 + CHOOSE id \in idsIn(stored) : \A other \in idsIn(stored) : other <= id

(* second pass: every imported collection gets a new id, new colour ids,    *)
(* and is pushed                                                            *)
RECURSIVE pushAll(_, _)
pushAll(importedCollections, stored) ==
  IF importedCollections = <<>> THEN stored
  ELSE LET newId == generateId(stored)
           pushed == Head(importedCollections)
       IN  pushAll(Tail(importedCollections),
                   Append(stored,
                          [id |-> newId, name |-> pushed.name,
                           colors |-> [i \in 1..pushed.colors |-> newId + i]]))

importCollections(importedCollections) ==
  /\ page = "importCollections"
  /\ Len(collections) + Len(importedCollections) <= MaxCollections
  /\ UNCHANGED << jsonText, vibrancySelect >>
  /\ IF duplicateFound(importedCollections, collections)
     THEN /\ alerted' = duplicateCollectionName(importedCollections, collections)
          /\ UNCHANGED collections
     ELSE IF firstPassThrows(importedCollections, collections)
     THEN UNCHANGED << collections, alerted >>
     ELSE /\ collections' = pushAll(importedCollections, collections)
          /\ UNCHANGED alerted
  /\ UNCHANGED << page, hslVars, okVars, appVars, colorInputValue, inputError, modalVars,
                  timerVars >>

-----------------------------------------------------------------------------
(* generateJsonStringForFigma, the text of the formats written line by      *)
(* line.  The text is kept as its JSON tokens: "{", "}", ",", "key" for a   *)
(* quoted name with its colon and "str" for a quoted value, both written by *)
(* escapeJsonString.                                                        *)

ExportFormats == {"figma-themed", "light ramp", "dark ramp"}

MaxColors == 3

(* the base strings of stored colours: a hex colour and a string that is no *)
(* colour (collections are imported without a check of their colours)       *)
StoredBases == {Typed("hex", <<128, 128, 128>>), Typed("other", <<>>)}

(* stored colours of the HSL page: with their ramps, or without (legacy) *)
StoredColors_hsl == [base : StoredBases, ramps : BOOLEAN]

StoredColors_oklch == [base : StoredBases]

ColorLists(stored) == UNION {[1..n -> stored] : n \in 0..MaxColors}

(* HSL processColor(color) returns something: the stored ramps, else the    *)
(* ramps of a valid base                                                    *)
processColor_hsl(stored) == stored.ramps \/ isValidColor(parseRgbInput_hsl(stored.base))

(* OKLCH processColor(color) returns something: new Color(...) did not throw *)
processColor_oklch(stored) == readColorValue(stored.base).ok

(* buildScaleBlock(...).join: one line per scale, a comma after each but    *)
(* the last                                                                 *)
RECURSIVE scaleLines(_)
scaleLines(idx) ==
  IF idx > Len(SCALES) THEN <<>>
  ELSE <<"key", "str">> \o (IF idx = Len(SCALES) THEN <<>> ELSE <<",">>) \o scaleLines(idx + 1)

scaleBlock == <<"{">> \o scaleLines(1) \o <<"}">>

headerLines == <<"{", "key", "str", ",", "key", "str", ",">>

(* HSL: the lines of processedColors, the colours that passed the filter;   *)
(* the comma is left out at the last of them                                *)
RECURSIVE colorLines_hsl(_, _)
colorLines_hsl(processedColors, idx) ==
  IF idx > Len(processedColors) THEN <<>>
  ELSE <<"key">> \o scaleBlock
         \o (IF idx = Len(processedColors) THEN <<>> ELSE <<",">>)
         \o colorLines_hsl(processedColors, idx + 1)

(* OKLCH: the lines of collection.colors.forEach; a colour that is not      *)
(* processed pushes nothing, the comma is left out at the last index of     *)
(* collection.colors                                                        *)
RECURSIVE colorLines_oklch(_, _)
colorLines_oklch(colors, colorIdx) ==
  IF colorIdx > Len(colors) THEN <<>>
  ELSE (IF processColor_oklch(colors[colorIdx])
        THEN <<"key">> \o scaleBlock \o (IF colorIdx = Len(colors) THEN <<>> ELSE <<",">>)
        ELSE <<>>)
         \o colorLines_oklch(colors, colorIdx + 1)

(* the lines around those of the colours *)
textOf(format, lines) ==
  IF format = "figma-themed"
  THEN headerLines \o <<"key", "{", "key", "{">> \o lines
         \o <<"}", ",", "key", "{">> \o lines \o <<"}", "}", "}">>
  ELSE headerLines \o <<"key", "{">> \o lines \o <<"}", "}">>

jsonStringForFigma_hsl(colors, format) ==
  /\ page = "exportText"
  /\ jsonText' = textOf(format, colorLines_hsl(SelectSeq(colors, processColor_hsl), 1))
  /\ UNCHANGED << collections, alerted, vibrancySelect >>
  /\ UNCHANGED << page, hslVars, okVars, appVars, colorInputValue, inputError, modalVars,
                  timerVars >>

jsonStringForFigma_oklch(colors, format) ==
  /\ page = "exportText"
  /\ jsonText' = textOf(format, colorLines_oklch(colors, 1))
  /\ UNCHANGED << collections, alerted, vibrancySelect >>
  /\ UNCHANGED << page, hslVars, okVars, appVars, colorInputValue, inputError, modalVars,
                  timerVars >>

-----------------------------------------------------------------------------
(* OKLCH page, a colour with chroma: saved to a collection and exported.    *)
(* Lightness, a, b and chroma are in units of 1e-4, the hue in tenths of a  *)
(* degree.  The export is followed on the scales 300 to 700 of the ramp,    *)
(* whose colours of the bases below lie inside sRGB and differ from one     *)
(* another, so that hex() needs no gamut mapping and processRamp leaves     *)
(* them as generateRamp made them.                                          *)

(* new Color(hex).to('oklch') and its a, b in OKLab *)
ChromaticColors == {<<96, 112, 128>>, <<128, 112, 96>>, <<120, 120, 128>>}

oklchOfChromatic(rgb) ==
  CASE rgb = <<96, 112, 128>> -> [l |-> 5378, c |-> 317, h |-> 2484, a |-> -116, b |-> -294]
    [] rgb = <<128, 112, 96>> -> [l |-> 5556, c |-> 313, h |-> 671, a |-> 122, b |-> 288]
    [] rgb = <<120, 120, 128>> -> [l |-> 5753, c |-> 121, h |-> 2860, a |-> 33, b |-> -117]

(* the values of the select *)
VibrancyValues == {0, 50, 100}

(* x^3 of a value in units of 1e-4 *)
cube(x) == (((x * x) \div 10000) * x) \div 10000

(* one sRGB channel of hex(color) from its linear-light value *)
byteOf(linear) == Cardinality({v \in 1..255 : linear >= cube(SrgbByteThreshold[v])})

(* hex(color) of a colour given in OKLab: OKLab to LMS, cubed, to linear    *)
(* sRGB, to bytes                                                           *)
hexOfOklab(l, a, b) ==
  LET l_ == cube(l + (3963 * a + 2158 * b) \div 10000)
      m_ == cube(l - (1056 * a + 639 * b) \div 10000)
      s_ == cube(l - (895 * a + 12915 * b) \div 10000)
  IN  << byteOf((40767 * l_ - 33077 * m_ + 2310 * s_) \div 10000),
         byteOf((26098 * m_ - 12684 * l_ - 3413 * s_) \div 10000),
         byteOf((17076 * s_ - 42 * l_ - 7034 * m_) \div 10000) >>

compressionFactor(hue) ==
  IF hue >= 2600 /\ hue <= 3300 THEN 85
  ELSE IF (hue >= 0 /\ hue <= 300) \/ (hue >= 3300 /\ hue <= 3600) THEN 95
  ELSE 100

(* generateRamp's fourth argument when the stored colour is exported:       *)
(* color.vibrancyBoost, undefined (here -1) when the colour has no such key *)
vibrancyBoostOf(stored) ==
  IF "vibrancyBoost" \in DOMAIN stored THEN stored.vibrancyBoost ELSE -1

(* boostValue: the argument if there is one, else the value of the select *)
boostValueOf(vibrancyBoost, select) == IF vibrancyBoost # -1 THEN vibrancyBoost ELSE select

(* rampChroma / originalChroma, in units of 1e-4 *)
rampChromaFactor(oklch, boostValue) ==
  IF oklch.c < 100 THEN 0
  ELSE IF boostValue > 0 THEN 10000 + boostValue * compressionFactor(oklch.h)
  ELSE 10000

(* startEndBias, in units of 1e-4 *)
startEndBiasOf(oklch, boostValue) ==
  IF oklch.c >= 100 /\ boostValue > 0 THEN 5 * boostValue ELSE 0

(* a.steps(b, {steps: n + 1, space: 'oklch'})[i] in one coordinate *)
stepBetween(from, to, i, n) == from + ((to - from) * i) \div n

(* generateRamp(baseColor, isLightRamp, isDefaultRamp, vibrancyBoost), the  *)
(* colour at index i of SCALES, as [l, factor]: its lightness and its       *)
(* chroma over originalChroma; the hue is that of the base throughout       *)
chromaticShade(oklch, isLightRamp, isDefaultRamp, boostValue, i) ==
  LET L_start == IF isLightRamp THEN 9900 ELSE 1500
      L_end == IF isLightRamp THEN 1500 ELSE 9900
      factor == rampChromaFactor(oklch, boostValue)
      bias == startEndBiasOf(oklch, boostValue)
      startFactor == (factor * (10000 - bias)) \div 10000
      endFactor == (factor * (10000 + bias)) \div 10000
      anchorIndex == Max(0, Min(Len(SCALES) - 1,
                       (Abs(oklch.l - L_start) * 2 * (Len(SCALES) - 1) + 8400) \div 16800))
      last == Len(SCALES) - 1
  IN  IF ~isDefaultRamp
      THEN [l |-> stepBetween(L_start, L_end, i, last),
            factor |-> stepBetween(startFactor, endFactor, i, last)]
      ELSE IF i < anchorIndex
      THEN [l |-> stepBetween(L_start, oklch.l, i, anchorIndex),
            factor |-> stepBetween(startFactor, factor, i, anchorIndex)]
      ELSE [l |-> stepBetween(oklch.l, L_end, i - anchorIndex, last - anchorIndex),
            factor |-> stepBetween(factor, endFactor, i - anchorIndex, last - anchorIndex)]

ExportedIndexes == <<3, 4, 5, 6, 7>>

(* processColor and the 'light ramp' / 'dark ramp' export of one stored     *)
(* colour: the hex strings of its ramp                                      *)
exportedRamp(stored, format, select) ==
  LET oklch == oklchOfChromatic(stored.base)
      isLightRamp == format = "light ramp"
      isDefaultRamp == stored.defaultMode = (IF isLightRamp THEN "light" ELSE "dark")
      boostValue == boostValueOf(vibrancyBoostOf(stored), select)
  IN  [n \in DOMAIN ExportedIndexes |->
         LET shade == chromaticShade(oklch, isLightRamp, isDefaultRamp, boostValue,
                                     ExportedIndexes[n])
         IN  hexOfOklab(shade.l, (oklch.a * shade.factor) \div 10000,
                        (oklch.b * shade.factor) \div 10000)]

(* the 'change' listener of the select *)
vibrancyChanged(value) ==
  /\ page = "savedColor"
  /\ value # vibrancySelect
  /\ vibrancySelect' = value
  /\ UNCHANGED << collections, alerted, jsonText >>
  /\ UNCHANGED << page, hslVars, okVars, appVars, colorInputValue, inputError, modalVars,
                  timerVars >>

(* the click on 'add colour' of a collection: base, vibrancy and default    *)
(* mode of the page are pushed                                              *)
addColorClicked(rgb, currentDefaultMode) ==
  /\ page = "savedColor"
  /\ collection = <<>>
  /\ collection' = << [base |-> rgb, vibrancy |-> vibrancySelect,
                       defaultMode |-> currentDefaultMode] >>
  /\ UNCHANGED << exportJson, storeVars >>
  /\ UNCHANGED << page, hslVars, okVars, colorInputValue, inputError, modalVars, timerVars >>

(* the export of the collection as 'light ramp' or 'dark ramp': the ramps  *)
(* stand under "colors", one per colour                                     *)
exportSavedColor(format) ==
  /\ page = "savedColor"
  /\ collection # <<>>
  /\ exportJson' = [Light |-> <<>>, Dark |-> <<>>, format |-> format, keys |-> <<>>,
                    colors |-> << exportedRamp(collection[1], format, vibrancySelect) >>]
  /\ UNCHANGED << collection, storeVars >>
  /\ UNCHANGED << page, hslVars, okVars, colorInputValue, inputError, modalVars, timerVars >>

(* determineBaseScale called on its own with a colour and a mode: the scale *)
(* it returns is kept where updateColorRamps keeps it                       *)
callDetermineBaseScale(rgb, isDarkMode) ==
  /\ page = "determineBaseScale"
  /\ pc = "idle"
  /\ baseColor' = tinycolorHex(rgb)
  /\ isDarkModeDefault' = isDarkMode
  /\ pc' = "returned"
  /\ actualLightBaseScale' = IF isDarkMode THEN actualLightBaseScale
                             ELSE determineBaseScale(tinycolorHex(rgb), FALSE)
  /\ actualDarkBaseScale' = IF isDarkMode THEN determineBaseScale(tinycolorHex(rgb), TRUE)
                            ELSE actualDarkBaseScale
  /\ UNCHANGED << page, currentLightRamp, currentDarkRamp, currentSeenSet, duplicates,
                  resolverInput, lightSwatches, darkSwatches, okVars, appVars, uiVars >>

(* the numbers of colours by which a call of steps() may miss the number   *)
(* asked for                                                                *)
MoreSteps == {-1, 0, 1}

(* generateRamp called on its own for the default ramp of a gray, the       *)
(* library handing back more1 and more2 colours more than asked for; only   *)
(* the ramp of this call is kept                                            *)
callGenerateRamp(gray, isLightRamp, more1, more2) ==
  /\ page = "generateRamp"
  /\ okPc = "idle"
  /\ LET generated == generateAnchoredRamp(oklchOf(gray), isLightRamp, more1, more2)
     IN  IF isLightRamp
         THEN /\ lightRampRaw' = generated.ramp
              /\ lightAnchor' = generated.anchorScale
              /\ darkRampRaw' = EmptyRamp
              /\ darkAnchor' = NoAnchor
         ELSE /\ darkRampRaw' = generated.ramp
              /\ darkAnchor' = generated.anchorScale
              /\ lightRampRaw' = EmptyRamp
              /\ lightAnchor' = NoAnchor
  /\ color' = gray
  /\ rampId' = IF isLightRamp THEN "lightRamp" ELSE "darkRamp"
  /\ okPc' = "generated"
  /\ UNCHANGED << isDarkDefault, scaleIndex, processed, localHexes, originalColor,
                  processedResult, processedLightRamp, processedDarkRamp,
                  okLightSwatches, okDarkSwatches >>
  /\ UNCHANGED << page, hslVars, appVars, uiVars >>

vars == << page, hslVars, okVars, appVars, uiVars >>

Init ==
  /\ collection = <<>>
  /\ exportJson = NoExport
  /\ colorInputValue = Typed("empty", <<>>)
  /\ inputError = FALSE
  /\ modalStack = <<>>
  /\ openModals = <<>>
  /\ lastModalEvent = "load"
  /\ timeout = 0
  /\ sinceInput = 0
  /\ inputEvents = 0
  /\ pipelineRuns = 0
  /\ \/ page = "hsl" /\ HslInit /\ OkIdle
     \/ page = "oklch" /\ HslInit /\ OkIdle
     \/ page = "hslModals" /\ HslInit /\ OkIdle
     \/ page = "oklchModals" /\ HslInit /\ OkIdle
     \/ page = "processRamp" /\ HslInit /\ ProcessRampCalled
     \/ page = "determineBaseScale" /\ HslInit /\ OkIdle
     \/ page = "generateRamp" /\ HslInit /\ OkIdle
     \/ page = "hslTyping" /\ HslInit /\ OkIdle
     \/ page = "oklchTyping" /\ HslInit /\ OkIdle
     \/ page = "dragAndDrop" /\ HslInit /\ OkIdle
     \/ page = "importCollections" /\ HslInit /\ OkIdle
     \/ page = "exportText" /\ HslInit /\ OkIdle
     \/ page = "savedColor" /\ HslInit /\ OkIdle
  /\ collections = IF page = "dragAndDrop" THEN DraggedCollections
                   ELSE IF page = "importCollections" THEN StoredCollections
                   ELSE <<>>
  /\ alerted = NoName
  /\ jsonText = <<>>
  /\ vibrancySelect = 0

Next ==
  \/ page = "hsl"
       /\ \E input \in ColorInputs_hsl, toggle \in BOOLEAN : colorInputListener_hsl(input, toggle)
  \/ page = "determineBaseScale"
       /\ \E rgb \in BaseColors, isDarkMode \in BOOLEAN : callDetermineBaseScale(rgb, isDarkMode)
  \/ page = "hslTyping" /\ \E input \in TypedColors_hsl : debounced_hsl(input)
  \/ timePasses_hsl
  \/ page = "oklchTyping" /\ \E input \in TypedColors_oklch : inputEvent_oklch(input)
  \/ timePasses_oklch
  \/ page = "dragAndDrop"
       /\ \E colorId \in ColorIds, fromCollectionId \in CollectionIds,
             toCollectionId \in CollectionIds, targetColorId \in ColorIds, position \in Positions :
            moveColorItemHandler(colorId, fromCollectionId, toCollectionId, targetColorId, position)
  \/ page = "importCollections"
       /\ \E importedCollections \in ImportedData : importCollections(importedCollections)
  \/ page = "savedColor" /\ \E value \in VibrancyValues : vibrancyChanged(value)
  \/ page = "savedColor"
       /\ \E rgb \in ChromaticColors, currentDefaultMode \in {"light", "dark"} :
            addColorClicked(rgb, currentDefaultMode)
  \/ page = "savedColor" /\ \E format \in {"light ramp", "dark ramp"} : exportSavedColor(format)
  \/ page = "exportText"
       /\ \E colors \in ColorLists(StoredColors_hsl), format \in ExportFormats :
            jsonStringForFigma_hsl(colors, format)
  \/ page = "exportText"
       /\ \E colors \in ColorLists(StoredColors_oklch), format \in ExportFormats :
            jsonStringForFigma_oklch(colors, format)
  \/ GenerateRamps
  \/ ForceDarkModeDistinctness
  \/ EnsureDarkMode950IsLightest
  \/ GuaranteeUniqueColors
  \/ pc = "resolving"
       /\ \E r1 \in DrawsOf(1), r2 \in DrawsOf(2), r3 \in DrawsOf(3) : FixDuplicate(r1, r2, r3)
  \/ ReturnUniqueColors
  \/ pc = "unique"
       /\ \E r1 \in RandomDraws, r2 \in RandomDraws, r3 \in RandomDraws :
            EnsureLightRamp950(r1, r2, r3)
  \/ RenderRamps
  \/ page = "oklch"
       /\ \E input \in ColorInputs_oklch, toggle \in BOOLEAN :
            colorInputListener_oklch(input, toggle)
  \/ page = "generateRamp"
       /\ \E gray \in GrayColors, isLightRamp \in BOOLEAN, more1 \in MoreSteps,
             more2 \in MoreSteps :
            callGenerateRamp(gray, isLightRamp, more1, more2)
  \/ ProcessScale
  \/ HexInUse
  \/ NudgeOriginal
  \/ StoreProcessed
  \/ RenderProcessed
  \/ addColorToSpecificCollection
  \/ addColor_oklch
  \/ generateJsonStringForFigma_hsl
  \/ generateJsonStringForFigma_oklch
  \/ buildThemedExport
  \/ generateJsonForFigma_hsl
  \/ buildPairedExport
  \/ openHelpModal
  \/ closeHelpModal
  \/ \E modal \in StackedModals : openModal_hsl(modal)
  \/ openFigmaExampleModal_hsl
  \/ \E modal \in StackedModals \cup {"figmaExample"} : closeModal_hsl(modal)
  \/ closeImportModal_hsl
  \/ handleEscapeKey_hsl
  \/ \E modal \in StackedModals \cup {"help"} : openModal_oklch(modal)
  \/ openFigmaExampleModal_oklch
  \/ \E modal \in StackedModals \cup {"help", "figmaExample"} : closeModal_oklch(modal)
  \/ handleEscapeKey_oklch

Spec == Init /\ [][Next]_vars

(* a call of processRamp runs on without interruption: a step of its loops  *)
(* that can be taken is taken                                               *)
processRampStep == ProcessScale \/ HexInUse \/ NudgeOriginal \/ StoreProcessed

FairSpec == Spec /\ WF_vars(processRampStep)

-----------------------------------------------------------------------------
(* Properties *)

(* the hexes of the pair of the HSL page, of the pair of the OKLCH page *)
pairHexes_hsl == HexesOf(currentLightRamp) \cup HexesOf(currentDarkRamp)

pairHexes_oklch ==
  {hex(processedLightRamp[k].bg) : k \in DOMAIN processedLightRamp}
    \cup {hex(processedDarkRamp[k].bg) : k \in DOMAIN processedDarkRamp}

(* the run of the HSL page, of the OKLCH page, has produced its final pair *)
produced_hsl == page = "hsl" /\ pc = "done"

produced_oklch == page = "oklch" /\ okPc = "done"

(* C1: no background hex occurs twice among the 22 swatches of the light    *)
(* and the dark ramp of a finally produced pair.                            *)
C1_NoHexTwice ==
  /\ produced_hsl => Cardinality(pairHexes_hsl) = 2 * Len(SCALES)
  /\ produced_oklch => Cardinality(pairHexes_oklch) = 2 * Len(SCALES)

(* C2: the pair guaranteeUniqueColors returns has no duplicate hex within   *)
(* either ramp or across the pair, also when the last-resort reassignment   *)
(* was used.                                                                *)
C2_ResolverLeavesNoCollision ==
  (page = "hsl" /\ pc = "unique") => Cardinality(pairHexes_hsl) = 2 * Len(SCALES)

renderedSwatches ==
  {lightSwatches[k] : k \in DOMAIN lightSwatches}
    \cup {darkSwatches[k] : k \in DOMAIN darkSwatches}
    \cup {okLightSwatches[k] : k \in DOMAIN okLightSwatches}
    \cup {okDarkSwatches[k] : k \in DOMAIN okDarkSwatches}

(* C4: every displayed swatch either has a contrast ratio of at least 4.5   *)
(* between its background and its text colour or carries the failure badge. *)
C4_BelowMinimumIsFlagged ==
  \A swatch \in renderedSwatches : swatch.ratio < 450 => swatch.badge = "Fail"

(* C5: the light and the dark ramp of a produced pair contain exactly the   *)
(* eleven canonical scale keys 50, 100, ..., 900, 950, on both pages.       *)
C5_CanonicalKeys ==
  /\ produced_hsl =>
       DOMAIN currentLightRamp = ScaleSet /\ DOMAIN currentDarkRamp = ScaleSet
  /\ produced_oklch =>
       DOMAIN processedLightRamp = ScaleSet /\ DOMAIN processedDarkRamp = ScaleSet

(* a pair produced from the sample colour by the whole pipeline of the HSL  *)
(* page, with the eleven keys                                               *)
C5_Witness ==
  /\ produced_hsl
  /\ baseColor.rgb = <<59, 130, 246>>
  /\ Cardinality(DOMAIN currentLightRamp) = Len(SCALES)
  /\ Cardinality(DOMAIN currentDarkRamp) = Len(SCALES)

(* the steps of a started run of updateColorRamps when every Math.random()  *)
(* call returns r                                                           *)
stepWithDraws(r) ==
  \/ GenerateRamps
  \/ ForceDarkModeDistinctness
  \/ EnsureDarkMode950IsLightest
  \/ GuaranteeUniqueColors
  \/ FixDuplicate(r, r, r)
  \/ ReturnUniqueColors
  \/ EnsureLightRamp950(r, r, r)
  \/ RenderRamps

(* C6: the pipeline is a pure function of its input: a run started on a     *)
(* base colour and a mode goes through the same steps to the same ramps     *)
(* whatever the random draws are, that is, every step of a started run is   *)
(* the step taken when each draw returns 0.                                 *)
C6_RunDeterminedByInput ==
  [][(page = "hsl" /\ pc \notin {"idle", "done"}) => stepWithDraws(0)]_vars

(* the swatch at the anchor scale of the default-mode ramp, on each page *)
anchorSwatch_hsl ==
  IF isDarkModeDefault THEN darkSwatches[actualDarkBaseScale]
  ELSE lightSwatches[actualLightBaseScale]

anchorSwatch_oklch ==
  IF isDarkDefault THEN okDarkSwatches[darkAnchor.value]
  ELSE okLightSwatches[lightAnchor.value]

(* C7: in the default-mode ramp the swatch at the anchor scale has exactly  *)
(* the hex of the base colour whenever the base colour itself meets the     *)
(* contrast minimum of 4.5, whatever its lightness.                         *)
C7_AnchorKeepsBaseHex ==
  /\ (produced_hsl /\ bestContrast(baseColor) >= 45000) =>
       anchorSwatch_hsl.hex = baseColor.rgb
  /\ (produced_oklch /\ evaluated(oklchOf(color)).ratio >= 450) =>
       anchorSwatch_oklch.hex = color

(* the lightness of the backgrounds of a ramp in ascending scale order: on   *)
(* the HSL page color.toHsl().l, as the code itself measures it             *)
lightnessSeq_hsl(ramp) == [i \in 1..Len(SCALES) |-> ramp[SCALES[i]].l]

lightnessSeq_oklch(ramp) == [i \in 1..Len(SCALES) |-> ramp[SCALES[i]].bg]

strictlyDecreasing(seq) == \A i \in 1..(Len(seq) - 1) : seq[i] > seq[i + 1]

strictlyIncreasing(seq) == \A i \in 1..(Len(seq) - 1) : seq[i] < seq[i + 1]

(* C8: in a finally produced pair the background lightness is strictly      *)
(* decreasing from 50 to 950 in the light ramp and strictly increasing in   *)
(* the dark ramp, after all repairs and the anchoring of the base colour.   *)
C8_StrictlyMonotonic ==
  /\ produced_hsl =>
       /\ strictlyDecreasing(lightnessSeq_hsl(currentLightRamp))
       /\ strictlyIncreasing(lightnessSeq_hsl(currentDarkRamp))
  /\ produced_oklch =>
       /\ strictlyDecreasing(lightnessSeq_oklch(processedLightRamp))
       /\ strictlyIncreasing(lightnessSeq_oklch(processedDarkRamp))

(* the pair handed to guaranteeUniqueColors has 22 pairwise distinct hexes *)
inputUnique ==
  Cardinality(HexesOf(resolverInput.light) \cup HexesOf(resolverInput.dark))
    = 2 * Len(SCALES)

(* the resolver has returned on the HSL page *)
resolved == page = "hsl" /\ pc = "unique"

(* C9: guaranteeUniqueColors on a pair whose 22 hexes are already pairwise  *)
(* distinct returns the pair unchanged, every swatch with its hex; a second *)
(* resolution of what it returned finds no duplicate to fix either.         *)
C9_UniquePairUnchanged ==
  (resolved /\ inputUnique) =>
    /\ \A scale \in ScaleSet :
         /\ currentLightRamp[scale].rgb = resolverInput.light[scale].rgb
         /\ currentDarkRamp[scale].rgb = resolverInput.dark[scale].rgb
    /\ findDuplicates(allColors(currentLightRamp, currentDarkRamp), 1, {}, <<>>).duplicates
         = <<>>

(* the resolver has returned on the unique pair generated for a base colour *)
(* of the page's samples                                                    *)
C9_Witness ==
  /\ resolved
  /\ inputUnique
  /\ baseColor.rgb = <<59, 130, 246>>
  /\ resolverInput.light = currentLightRamp

(* the number of keys of a block of scale keys that carry the * suffix *)
starredKeys(block) == Cardinality({scale \in DOMAIN block : block[scale].star})

(* C10: in a themed export every colour has, under Light and under Dark,    *)
(* exactly one scale key with the * suffix.                                 *)
C10_OneStarPerTheme ==
  /\ \A i \in DOMAIN exportJson.Light : starredKeys(exportJson.Light[i]) = 1
  /\ \A i \in DOMAIN exportJson.Dark : starredKeys(exportJson.Dark[i]) = 1

-----------------------------------------------------------------------------
(* C11: when the string typed in the colour field cannot be parsed, the     *)
(* input is rejected: the last valid colour, the pair of ramps made from it *)
(* and the swatches shown stay exactly as they were, on both pages.         *)

unparseable(input) ==
  \/ page = "hsl" /\ input.form # "empty" /\ ~parseRgbInput_hsl(input).ok
  \/ page = "oklch" /\ ~readColorValue(input).ok

-----------------------------------------------------------------------------
(* C12: no invocation of the pipeline fails to hand back its result: every  *)
(* call of processRamp, from updateAll, from the export or on its own, on   *)
(* any ramp (shades missing or not) and any set of hexes in use, returns a  *)
(* processed ramp with all 11 shades.                                       *)

returned_processRamp ==
  /\ okPc \in {"processed", "exported"}
  /\ DOMAIN processed = ScaleSet

-----------------------------------------------------------------------------
(* C13: whenever at least one modal is open, pressing Escape closes the     *)
(* modal that was opened last and no other modal.                           *)

-----------------------------------------------------------------------------
(* C16: the modal stack holds exactly the modals that are open, in the      *)
(* order they were opened: a modal that has been closed, by its close       *)
(* button, its backdrop or Escape, has no entry left, so the stack cannot   *)
(* grow without bound.  (The help modal of the HSL page is never given an   *)
(* entry and is left out of the comparison.)                                *)

stackedOpenModals ==
  IF page = "hslModals" THEN hidden(openModals, "help") ELSE openModals

C16_StackHoldsExactlyOpenModals ==
  page \in {"hslModals", "oklchModals"} => modalStack = stackedOpenModals

-----------------------------------------------------------------------------
(* C14: every export lists the scales of each ramp in the canonical order   *)
(* 50, 100, ..., 950; the key marked with * stands where its scale stands   *)
(* in that order.                                                           *)

canonicalOrder(keys) ==
  /\ Len(keys) = Len(SCALES)
  /\ \A i \in 1..Len(SCALES) : keys[i].scale = SCALES[i]

C14_ExportKeepsScaleOrder ==
  \A i \in DOMAIN exportJson.keys : canonicalOrder(exportJson.keys[i])

C14_Witness ==
  /\ exportJson.format = "themed"
  /\ \E i \in DOMAIN exportJson.keys :
       \E k \in 1..(Len(SCALES) - 1) : exportJson.keys[i][k].star

-----------------------------------------------------------------------------
(* C15: for the base colour #FFFFFF the light ramp has exactly #FFFFFF at   *)
(* scale 50, and the dark ramp has at scale 950 a near-white that is not    *)
(* pure white, hence different from the light ramp's scale 50.              *)

C15_WhiteInputKeepsDark950OffWhite ==
  (produced_hsl /\ baseColor.rgb = WHITE_HEX)
    => /\ currentLightRamp[50].rgb = WHITE_HEX
       /\ currentDarkRamp[950].rgb # WHITE_HEX
       /\ currentDarkRamp[950].rgb # currentLightRamp[50].rgb

-----------------------------------------------------------------------------
(* C17: the lookup of the hue profile honours the band that wraps around    *)
(* 0 degrees: every hue from 350 through 360/0 to 30 degrees gets the       *)
(* red-orange profile (minimum saturation 0.60), and a hue outside all      *)
(* four bands gets none.  Hues are in hundredths of a degree; the base      *)
(* colours looked at are those with a hue of their own (saturation > 0),    *)
(* which all reach generateDarkRampWithExactBase and its lookup.            *)

inRedOrangeBand(hue) == hue >= 35000 \/ hue <= 3000

inPlainBand(hue) ==
  \/ hue >= 20000 /\ hue <= 26000
  \/ hue >= 8000 /\ hue <= 16000
  \/ hue >= 27000 /\ hue <= 33000

C17_WrapAroundBandMatches ==
  (page = "hsl" /\ pc # "idle" /\ baseColor.s > 0)
    => /\ inRedOrangeBand(baseColor.h) => getSpecialColorHandling(baseColor.h) = 6000
       /\ (~inRedOrangeBand(baseColor.h) /\ ~inPlainBand(baseColor.h))
            => getSpecialColorHandling(baseColor.h) = 0


(* C18: anchor quantization is total and direction-specific: every base     *)
(* lightness from 0 to 1, both ends included, lies in exactly one of the    *)
(* eleven bins, determineBaseScale returns the scale of that bin, and the   *)
(* bin of the highest lightness is Scale 50 in light mode and Scale 950 in  *)
(* dark mode.                                                               *)
binsHolding(lightness, isDarkMode) ==
  {k \in ScaleSet :
     LET b == IF isDarkMode THEN Mirror(k) ELSE k
     IN  lightness >= LightModeMin[b] /\ lightness < LightModeMax[b]}

returnedBaseScale == IF isDarkModeDefault THEN actualDarkBaseScale ELSE actualLightBaseScale

C18_QuantizationTotalAndDirected ==
  (page = "determineBaseScale" /\ pc = "returned")
    => /\ Cardinality(binsHolding(baseColor.l, isDarkModeDefault)) = 1
       /\ returnedBaseScale \in binsHolding(baseColor.l, isDarkModeDefault)
       /\ baseColor.l >= 9500
            => returnedBaseScale = (IF isDarkModeDefault THEN 950 ELSE 50)


-----------------------------------------------------------------------------
(* C19: in every dark ramp finally produced, Scale 900 has a lightness of   *)
(* at least 90%, Scale 950 a lightness of at least 95%, and Scale 950 is    *)
(* strictly lighter than Scale 900: the steps that follow                   *)
(* ensureDarkMode950IsLightest (duplicate perturbation, re-injection of     *)
(* the base colour, global lightening) do not undo it.                      *)
C19_DarkTerminalShadesNearWhite ==
  produced_hsl
    => /\ currentDarkRamp[900].l >= 9000
       /\ currentDarkRamp[950].l >= 9500
       /\ currentDarkRamp[950].l > currentDarkRamp[900].l


-----------------------------------------------------------------------------
(* C20: after adjustDarkRamp100Shade has repositioned Scale 100 of a dark   *)
(* ramp, the lightness of Scale 100 is at least 1.5% above that of Scale 50 *)
(* and at least 1.5% below that of Scale 200, whatever the lightness of     *)
(* Scales 50 and 200, also when they are less than 3% apart.                *)
repositioned == page = "hsl" /\ pc = "adjusted"

C20_Scale100KeepsItsDistance ==
  repositioned
    => /\ currentDarkRamp[100].l >= currentDarkRamp[50].l + 150
       /\ currentDarkRamp[100].l <= currentDarkRamp[200].l - 150


-----------------------------------------------------------------------------
(* C21: a grayscale input never acquires hue or saturation: when the base   *)
(* colour is classified as grayscale, every colour of the light and of the  *)
(* dark ramp has saturation zero after every stage of updateColorRamps, and *)
(* the duplicate fixing of a grayscale colour (the last resort included)    *)
(* changes its lightness only.                                              *)
classifiedGrayscale == baseColor.s < 500

rampColors_hsl ==
  {currentLightRamp[k] : k \in DOMAIN currentLightRamp}
    \cup {currentDarkRamp[k] : k \in DOMAIN currentDarkRamp}

C21_GrayscaleStaysGray ==
  (page = "hsl" /\ pc # "idle" /\ classifiedGrayscale)
    => \A c \in rampColors_hsl : c.s = 0


-----------------------------------------------------------------------------
(* C22: when the two-segment interpolation of generateRamp does not produce *)
(* exactly eleven colours, the ramp returned is the single uniform          *)
(* interpolation from start to end at all eleven scales: no scale is        *)
(* missing and none holds a colour of the failed sequence.                  *)
generatedRamp == IF rampId = "lightRamp" THEN lightRampRaw ELSE darkRampRaw

-----------------------------------------------------------------------------
(* C23: the last-resort random reassignment of guaranteeUniqueColors keeps  *)
(* the lightness ordering of the ramp: whatever Math.random() returns, the  *)
(* reassigned shade is strictly between its two neighbouring scales in      *)
(* lightness, in the direction of its ramp (the light ramp gets darker, the *)
(* dark ramp lighter with the scale).                                       *)
lastResortPending ==
  /\ page = "hsl" /\ pc = "resolving" /\ duplicates # <<>>
  /\ randomCalls(Head(duplicates), currentSeenSet) >= 1

betweenNeighbours(ramp, rampType, scale) ==
  LET i == IndexOf(scale)
      up(a, b) == IF rampType = "light" THEN ramp[a].l > ramp[b].l ELSE ramp[a].l < ramp[b].l
  IN  /\ i > 1 => up(SCALES[i - 1], scale)
      /\ i < Len(SCALES) => up(scale, SCALES[i + 1])

C23_LastResortKeepsOrdering ==
  [][lastResortPending
       => LET info == Head(duplicates)
          IN  IF info.rampType = "light"
              THEN betweenNeighbours(currentLightRamp', "light", info.scale)
              ELSE betweenNeighbours(currentDarkRamp', "dark", info.scale)]_vars


-----------------------------------------------------------------------------
(* C24: input changes are debounced by 300 ms: during a burst of 'input'    *)
(* events less than 300 ms apart the handler does not run; it runs exactly  *)
(* once, 300 ms after the last event, with the last value, and the pair of  *)
(* ramps displayed then is the one of that value.                           *)
lastValueShown ==
  /\ (page = "hslTyping" /\ pc = "done") => baseColor.rgb = colorInputValue.parts
  /\ (page = "oklchTyping" /\ okPc = "done") => color = colorInputValue.parts[1]

C24_BurstRunsHandlerOnce ==
  (page \in {"hslTyping", "oklchTyping"} /\ inputEvents > 0)
    => IF sinceInput < DebounceTicks THEN pipelineRuns = 0
       ELSE pipelineRuns = 1 /\ lastValueShown


-----------------------------------------------------------------------------
(* C25: contrast ratios are truncated, not rounded, to two decimals: the    *)
(* ratio a swatch displays is the largest multiple of 0.01 that does not    *)
(* exceed the contrast ratio of its background and its text colour.         *)
swatches_hsl ==
  {lightSwatches[k] : k \in DOMAIN lightSwatches}
    \cup {darkSwatches[k] : k \in DOMAIN darkSwatches}

C25_RatioIsTruncated ==
  \A swatch \in swatches_hsl :
    swatch.ratio = readability(swatch.hex, swatch.textColor) \div 100


-----------------------------------------------------------------------------
(* C26: moving a colour by drag and drop keeps the stored colours: whatever *)
(* the source and target collection, the target colour id (null or not      *)
(* found included) and the position, every colour stored before the move is *)
(* stored exactly once after it.                                            *)
RECURSIVE storedColors(_)
storedColors(i) ==
  IF i > Len(collections) THEN <<>> ELSE collections[i].colors \o storedColors(i + 1)

C26_MoveKeepsEveryColour ==
  page = "dragAndDrop"
    => /\ Len(storedColors(1)) = Len(DraggedCollections[1].colors) + Len(DraggedCollections[2].colors)
       /\ \A c \in 1..3 : \E i \in DOMAIN storedColors(1) : storedColors(1)[i] = c


-----------------------------------------------------------------------------
(* C27: import is all-or-nothing with respect to name clashes: when some    *)
(* collection of the imported data has, case-insensitively, the name of a   *)
(* stored collection, the import adds no collection and leaves the stored   *)
(* collections exactly as they were.                                        *)
clashesWithStored(importedCollections) ==
  \E i \in DOMAIN importedCollections, j \in DOMAIN collections :
     /\ importedCollections[i].name # NoName
     /\ toLowerCase(importedCollections[i].name) = toLowerCase(collections[j].name)

C27_ClashingImportAddsNothing ==
  [][page = "importCollections"
       => \A importedCollections \in ImportedData :
            (importCollections(importedCollections) /\ clashesWithStored(importedCollections))
              => collections' = collections]_vars

(* an import was refused for a name that differs in case from the stored    *)
(* one, and the stored collections are as before                            *)
C27_Witness ==
  /\ page = "importCollections"
  /\ alerted = <<"a", "A">>
  /\ collections = StoredCollections

-----------------------------------------------------------------------------
(* C28: import keeps the names of the stored collections pairwise distinct, *)
(* case-insensitively, also when the imported data holds two collections of *)
(* the same name.                                                           *)
namesDistinct(stored) ==
  \A i, j \in DOMAIN stored :
     toLowerCase(stored[i].name) = toLowerCase(stored[j].name) => i = j

C28_ImportKeepsNamesDistinct ==
  page = "importCollections" => namesDistinct(collections)


-----------------------------------------------------------------------------
(* C29: the exported themed, light-ramp and dark-ramp text is well-formed   *)
(* JSON whichever colours are skipped as invalid, the last one included: no *)
(* comma is missing between two colour entries and none follows the last.   *)
(* A text of objects is JSON when it opens with "{", every token is        *)
(* followed by one that may follow it (after "{" a key or "}", after a key  *)
(* a value, after a value "," or "}", after "," a key), and the braces      *)
(* balance, closing the outermost object at the last token.                 *)
mayFollow(token, next) ==
  \/ token = "{" /\ next \in {"key", "}"}
  \/ token = "key" /\ next \in {"str", "{"}
  \/ token \in {"str", "}"} /\ next \in {",", "}"}
  \/ token = "," /\ next = "key"

depthAfter(tokens, i) ==
  Cardinality({j \in 1..i : tokens[j] = "{"}) - Cardinality({j \in 1..i : tokens[j] = "}"})

readsAsJson(tokens) ==
  /\ tokens # <<>>
  /\ tokens[1] = "{"
  /\ \A i \in 1..(Len(tokens) - 1) : mayFollow(tokens[i], tokens[i + 1])
  /\ \A i \in 1..(Len(tokens) - 1) : depthAfter(tokens, i) >= 1
  /\ depthAfter(tokens, Len(tokens)) = 0

C29_ExportedTextIsJson ==
  (page = "exportText" /\ jsonText # <<>>) => readsAsJson(jsonText)


-----------------------------------------------------------------------------
(* C30: the ramp exported for a saved colour is computed from the data      *)
(* stored with the colour alone (base, vibrancy, default mode): it is the   *)
(* ramp of the stored vibrancy, whatever the vibrancy control shows at the  *)
(* time of the export.                                                      *)
C30_ExportUsesStoredVibrancy ==
  (page = "savedColor" /\ exportJson # NoExport)
    => exportJson.colors[1]
         = exportedRamp(collection[1], exportJson.format, collection[1].vibrancy)

=============================================================================
